---------------------------- MODULE Spec2Model ----------------------------
(*************************************************************************)
(* A model of the ungzip decoder: gzip member framing (decompress.c),    *)
(* the DEFLATE block decoders, the canonical Huffman code generator      *)
(* (huffman_code.c) and the Huffman tree builder (huffman_tree.c).       *)
(*                                                                       *)
(* C arrays are 0-based; the model keeps them as sequences, so cell i of *)
(* the C array is element i + 1 of the sequence (see At).                *)
(*                                                                       *)
(* A function of the code is an operator that returns a record of the    *)
(* function's result and of the state it leaves. Where the code names an *)
(* intermediate value and uses it several times, the operator hands the  *)
(* value to a local operator as an argument.                             *)
(*************************************************************************)
EXTENDS Integers, Sequences, FiniteSets, TLC

VARIABLES
    pc,        \* where decompress_members / decompress_blocks stands
    buf_pos,   \* decompress_members: size_t buf_pos
    data,      \* decompress_blocks: struct decompression_data data
    blk,       \* locals of the running block decoder (trees, counters)
    lengths,   \* generate_huffman_codes: the code_lengths argument
    limit,     \* generate_huffman_codes: the limit argument
    codes,     \* generate_huffman_codes: the result (ok, codes[])
    parts      \* history: the members the input buffer was assembled from

vars == <<pc, buf_pos, data, blk, lengths, limit, codes, parts>>

-----------------------------------------------------------------------------
(* Program constants *)

MAX_DISTANCE == 32768
OUT_BUF_SIZE == 8192

\* a null pointer (struct node *), as an index into a tree's node array
NULL == 0

\* 0-based read of a C array kept as a sequence
At(s, i) == s[i + 1]

\* s[i] = v for a C array of which only the cells 0 .. Len(s) - 1 have been
\* written so far (the rest is uninitialised stack memory)
Store(s, i, v) == IF i < Len(s) THEN [s EXCEPT ![i + 1] = v] ELSE Append(s, v)

Pow2(n) == 2 ^ n

\* (x >> n) & 1
BitOf(x, n) == (x \div Pow2(n)) % 2

\* A C for loop over i = lo .. hi whose body returns a record with an ok
\* field; an iteration that clears ok is the loop's early return.
RECURSIVE ForLoop(_, _, _, _)
ForLoop(body(_, _), st, lo, hi) ==
    LET rest(left, mid) ==
            IF left.ok THEN ForLoop(body, left, mid + 1, hi) ELSE left
    IN  IF lo > hi \/ ~st.ok THEN st
        ELSE IF lo = hi THEN body(st, lo)
        ELSE rest(ForLoop(body, st, lo, (lo + hi) \div 2), (lo + hi) \div 2)

-----------------------------------------------------------------------------
(* huffman_code.c *)

\* a faulty get_huffman_code_string that writes the least significant bit
\* first
get_huffman_code_string_lsb_first(code, len) ==
    [i \in 1..len |-> IF BitOf(code, i - 1) = 1 THEN "1" ELSE "0"]

\* get_huffman_code_string: the len low bits of code as '1'/'0' characters,
\* most significant first
get_huffman_code_string(code, len) ==
    [i \in 1..len |-> IF BitOf(code, len - (i - 1) - 1) = 1 THEN "1" ELSE "0"]

\* the histogram loop of generate_huffman_codes (lines 36-40): ok is cleared by
\* the early return on a length above the limit or above 15
code_length_counts(code_lengths, length, lim) ==
    ForLoop(LAMBDA st, i:
                IF At(code_lengths, i) > lim \/ At(code_lengths, i) > 15
                THEN [st EXCEPT !.ok = FALSE]
                ELSE [st EXCEPT !.cnt[At(code_lengths, i)] = (@ + 1) % 65536],
            [ok |-> TRUE, cnt |-> [b \in 0..15 |-> 0]], 0, length - 1)

\* the start code of every length (lines 42-52), uint16_t arithmetic
RECURSIVE next_code_for_length(_, _)
next_code_for_length(cnt, bits) ==
    IF bits = 0 THEN 0
    ELSE ((next_code_for_length(cnt, bits - 1)
           + (IF bits - 1 = 0 THEN 0 ELSE cnt[bits - 1])) * 2) % 65536

\* a faulty assignment loop that never increments next_code[len]
assign_codes_no_increment(code_lengths, length, h) ==
    ForLoop(LAMBDA st, i:
                IF At(code_lengths, i) = 0
                THEN [st EXCEPT !.codes = Append(@, [huffman_code |-> <<>>,
                                                     len |-> 0])]
                ELSE [st EXCEPT
                        !.codes = Append(@,
                            [huffman_code |->
                                 get_huffman_code_string(
                                     st.next[At(code_lengths, i)],
                                     At(code_lengths, i)),
                             len |-> At(code_lengths, i)])],
            [ok |-> TRUE,
             next |-> [b \in 0..15 |->
                          IF b = 0 THEN 0 ELSE next_code_for_length(h.cnt, b)],
             codes |-> <<>>],
            0, length - 1).codes

\* the assignment loop of generate_huffman_codes (lines 54-63) from the
\* histogram h: codes[i] = [huffman_code, len]
assign_codes(code_lengths, length, h) ==
    ForLoop(LAMBDA st, i:
                IF At(code_lengths, i) = 0
                THEN [st EXCEPT !.codes = Append(@, [huffman_code |-> <<>>,
                                                     len |-> 0])]
                ELSE [st EXCEPT
                        !.codes = Append(@,
                            [huffman_code |->
                                 get_huffman_code_string(
                                     st.next[At(code_lengths, i)],
                                     At(code_lengths, i)),
                             len |-> At(code_lengths, i)]),
                        !.next[At(code_lengths, i)] = (@ + 1) % 65536],
            [ok |-> TRUE,
             next |-> [b \in 0..15 |->
                          IF b = 0 THEN 0 ELSE next_code_for_length(h.cnt, b)],
             codes |-> <<>>],
            0, length - 1).codes

\* generate_huffman_codes: [ok, codes]
generate_huffman_codes(code_lengths, length, lim) ==
    LET from(h) ==
            IF ~h.ok THEN [ok |-> FALSE, codes |-> <<>>]
            ELSE [ok |-> TRUE, codes |-> assign_codes(code_lengths, length, h)]
    IN  IF length > 288 THEN [ok |-> FALSE, codes |-> <<>>]
        ELSE from(code_length_counts(code_lengths, length, lim))

-----------------------------------------------------------------------------
(* huffman_tree.c *)

\* A tree is the array of its nodes in allocation order, the root first; the
\* pointers left and right are indices into that array (NULL = 0). The tree
\* of a NULL root is the empty array.
NoTree == <<>>

\* a node as lines 31-32 and 59-60 initialise it: left = right = NULL,
\* code = -1
NewNode == [left |-> NULL, right |-> NULL, code |-> -1]

\* malloc(node_size) == NULL (lines 26-28 and 54-55). The nodes of st are
\* the allocations the call has made, so the next malloc is its
\* (Len(st.nodes) + 1)-th; the malloc_fail_at-th returns NULL (none when
\* malloc_fail_at = 0).
MallocFails(st) == Len(st.nodes) + 1 = st.malloc_fail_at

\* a faulty InsertBit that links the child of a '1' bit on the left and the
\* child of a '0' bit on the right
InsertBitSwapped(st, i, code, j) ==
    LET join(nodes, bit, t) ==
            [ok |-> TRUE,
             nodes |-> IF bit = "1" THEN [nodes EXCEPT ![st.cur].left = t]
                       ELSE [nodes EXCEPT ![st.cur].right = t],
             cur |-> t, malloc_fail_at |-> st.malloc_fail_at]
        mark(nodes, t, last) ==
            IF last THEN [nodes EXCEPT ![t].code = i] ELSE nodes
        link(bit, tmp, last) ==
            IF bit # "1" /\ bit # "0" THEN [st EXCEPT !.ok = FALSE]
            ELSE IF \/ (last /\ tmp # NULL)
                    \/ (~last /\ tmp # NULL /\ st.nodes[tmp].code # -1)
            THEN [st EXCEPT !.ok = FALSE]
            ELSE IF tmp = NULL /\ MallocFails(st)
            THEN [st EXCEPT !.ok = FALSE]
            ELSE IF tmp = NULL
            THEN join(mark(Append(st.nodes, NewNode), Len(st.nodes) + 1, last),
                      bit, Len(st.nodes) + 1)
            ELSE join(mark(st.nodes, tmp, last), bit, tmp)
        child(bit, cur) == IF bit = "1" THEN cur.left ELSE cur.right
    IN  link(At(code.huffman_code, j),
             child(At(code.huffman_code, j), st.nodes[st.cur]),
             j = code.len - 1)

\* a faulty InsertBit that walks through a leaf: it does not refuse a code
\* that continues the code of an earlier symbol
InsertBitThroughLeaf(st, i, code, j) ==
    LET join(nodes, bit, t) ==
            [ok |-> TRUE,
             nodes |-> IF bit = "1" THEN [nodes EXCEPT ![st.cur].right = t]
                       ELSE [nodes EXCEPT ![st.cur].left = t],
             cur |-> t, malloc_fail_at |-> st.malloc_fail_at]
        mark(nodes, t, last) ==
            IF last THEN [nodes EXCEPT ![t].code = i] ELSE nodes
        link(bit, tmp, last) ==
            IF bit # "1" /\ bit # "0" THEN [st EXCEPT !.ok = FALSE]
            ELSE IF last /\ tmp # NULL
            THEN [st EXCEPT !.ok = FALSE]
            ELSE IF tmp = NULL /\ MallocFails(st)
            THEN [st EXCEPT !.ok = FALSE]
            ELSE IF tmp = NULL
            THEN join(mark(Append(st.nodes, NewNode), Len(st.nodes) + 1, last),
                      bit, Len(st.nodes) + 1)
            ELSE join(mark(st.nodes, tmp, last), bit, tmp)
        child(bit, cur) == IF bit = "1" THEN cur.right ELSE cur.left
    IN  link(At(code.huffman_code, j),
             child(At(code.huffman_code, j), st.nodes[st.cur]),
             j = code.len - 1)

\* one iteration of the inner loop of create_huffman_tree (lines 38-71):
\* bit j of the code of symbol i; st = [ok, nodes, cur, malloc_fail_at]. tmp
\* is the child of cur on the side of the bit, t the node the loop moves to
\* (tmp, or a new node when tmp is NULL and malloc gives one), last says
\* that j is the last bit of the code.
InsertBit(st, i, code, j) ==
    LET join(nodes, bit, t) ==
            [ok |-> TRUE,
             nodes |-> IF bit = "1" THEN [nodes EXCEPT ![st.cur].right = t]
                       ELSE [nodes EXCEPT ![st.cur].left = t],
             cur |-> t, malloc_fail_at |-> st.malloc_fail_at]
        mark(nodes, t, last) ==
            IF last THEN [nodes EXCEPT ![t].code = i] ELSE nodes
        link(bit, tmp, last) ==
            IF bit # "1" /\ bit # "0" THEN [st EXCEPT !.ok = FALSE]
            ELSE IF \/ (last /\ tmp # NULL)
                    \/ (~last /\ tmp # NULL /\ st.nodes[tmp].code # -1)
            THEN [st EXCEPT !.ok = FALSE]
            ELSE IF tmp = NULL /\ MallocFails(st)
            THEN [st EXCEPT !.ok = FALSE]
            ELSE IF tmp = NULL
            THEN join(mark(Append(st.nodes, NewNode), Len(st.nodes) + 1, last),
                      bit, Len(st.nodes) + 1)
            ELSE join(mark(st.nodes, tmp, last), bit, tmp)
        child(bit, cur) == IF bit = "1" THEN cur.right ELSE cur.left
    IN  link(At(code.huffman_code, j),
             child(At(code.huffman_code, j), st.nodes[st.cur]),
             j = code.len - 1)

\* lines 25-32 of create_huffman_tree: the root; ok is FALSE when its
\* malloc returns NULL
allocate_root(malloc_fail_at) ==
    IF malloc_fail_at = 1
    THEN [ok |-> FALSE, nodes |-> <<>>, cur |-> NULL,
          malloc_fail_at |-> malloc_fail_at]
    ELSE [ok |-> TRUE, nodes |-> <<NewNode>>, cur |-> 1,
          malloc_fail_at |-> malloc_fail_at]

\* lines 25-73 of create_huffman_tree: the root and the loops over the
\* codes g.codes
insert_codes(g, length, malloc_fail_at) ==
    ForLoop(LAMBDA st, i:
                ForLoop(LAMBDA s2, j: InsertBit(s2, i, At(g.codes, i), j),
                        [st EXCEPT !.cur = 1], 0, At(g.codes, i).len - 1),
            allocate_root(malloc_fail_at),
            0, length - 1)

\* create_huffman_tree: the node array, or NoTree for a NULL return. The
\* malloc_fail_at-th malloc of the call returns NULL (none when
\* malloc_fail_at = 0); the nodes allocated before it are freed.
create_huffman_tree(code_lengths, length, max_huffman_code_length, malloc_fail_at) ==
    LET built(r) == IF ~r.ok THEN NoTree ELSE r.nodes
        from(g) ==
            IF ~g.ok THEN NoTree
            ELSE built(insert_codes(g, length, malloc_fail_at))
    IN  IF length > 288 THEN NoTree
        ELSE from(generate_huffman_codes(code_lengths, length,
                                         max_huffman_code_length))

\* the allocator after a call of create_huffman_tree that returned a tree
\* of n nodes: the malloc that fails is n calls nearer
Malloced(d, n) ==
    [d EXCEPT !.malloc_fail_at = IF @ = 0 THEN 0 ELSE @ - n]

-----------------------------------------------------------------------------
(* decompress.c: the bit cursor and the output *)

\* a read of data->buf[i]: max_read is the highest index of the input
\* buffer read so far (history)
NoteRead(d, i) == [d EXCEPT !.max_read = IF i > @ THEN i ELSE @]

\* increment_bit_position; bits counts the bits consumed (history)
increment_bit_position(d) ==
    IF d.byte_pos = 7
    THEN [d EXCEPT !.byte_pos = 0, !.buf_pos = @ + 1, !.bits = @ + 1]
    ELSE [d EXCEPT !.byte_pos = @ + 1, !.bits = @ + 1]

\* (data->buf[data->buf_pos] >> data->byte_pos) & 1
CurrentBit(d) == BitOf(At(d.buf, d.buf_pos), d.byte_pos)

\* a faulty read_bits that puts the first bit read in the most significant
\* position
read_bits_msb_first(d, bits) ==
    LET result(r) == [ok |-> r.ok, d |-> r.d, value |-> r.tmp]
    IN  result(ForLoop(LAMBDA st, i:
                 IF st.d.buf_pos >= st.d.buf_len
                 THEN [st EXCEPT !.ok = FALSE]
                 ELSE [ok |-> TRUE,
                       d |-> increment_bit_position(
                                 NoteRead(st.d, st.d.buf_pos)),
                       tmp |-> IF CurrentBit(st.d) = 1
                               THEN (st.tmp + Pow2(bits - 1 - i)) % 65536
                               ELSE st.tmp],
                 [ok |-> TRUE, d |-> d, tmp |-> 0], 0, bits - 1))

\* read_bits: [ok, d, value]; bits in order from lsb to msb
read_bits(d, bits) ==
    LET result(r) == [ok |-> r.ok, d |-> r.d, value |-> r.tmp]
    IN  result(ForLoop(LAMBDA st, i:
                 IF st.d.buf_pos >= st.d.buf_len
                 THEN [st EXCEPT !.ok = FALSE]
                 ELSE [ok |-> TRUE,
                       d |-> increment_bit_position(
                                 NoteRead(st.d, st.d.buf_pos)),
                       tmp |-> IF CurrentBit(st.d) = 1 /\ BitOf(st.tmp, i) = 0
                               THEN (st.tmp + Pow2(i)) % 65536
                               ELSE st.tmp],
                 [ok |-> TRUE, d |-> d, tmp |-> 0], 0, bits - 1))

\* find_huffman_code's loop from node cur: [node, d], node = NULL on failure
RECURSIVE Descend(_, _, _)
Descend(d, root, cur) ==
    LET move(next) ==
            IF next = NULL
            THEN [node |-> NULL,
                  d |-> increment_bit_position(NoteRead(d, d.buf_pos))]
            ELSE Descend(increment_bit_position(NoteRead(d, d.buf_pos)),
                         root, next)
    IN  IF root[cur].code # -1 THEN [node |-> cur, d |-> d]
        ELSE IF d.buf_pos >= d.buf_len THEN [node |-> NULL, d |-> d]
        ELSE move(IF CurrentBit(d) = 1 THEN root[cur].right
                  ELSE root[cur].left)

\* find_huffman_code: [node, d]
find_huffman_code(d, root) ==
    IF root = NoTree THEN [node |-> NULL, d |-> d]
    ELSE Descend(d, root, 1)

\* the bytes a failing fwrite of n bytes puts in the stream: fewer than n,
\* f_short of them when that is fewer
ShortWrite(d, n) == IF d.f_short < n THEN d.f_short ELSE n - 1

\* fwrite(data->out_buf, 1, data->out_pos, data->f) != data->out_pos, and
\* out_pos = 0 after a full write. The writer fails on its f_fail_at-th call
\* (never when f_fail_at = 0), after taking ShortWrite bytes of it.
Flush(d) ==
    IF d.f_calls + 1 = d.f_fail_at
    THEN [ok |-> FALSE,
          d |-> [d EXCEPT !.f = @ \o SubSeq(d.out_buf, 1,
                                            ShortWrite(d, d.out_pos)),
                          !.f_calls = @ + 1]]
    ELSE [ok |-> TRUE,
          d |-> [d EXCEPT !.f = @ \o SubSeq(d.out_buf, 1, d.out_pos),
                          !.f_calls = @ + 1,
                          !.out_pos = 0]]

\* a faulty loop body of handle_literal_codes that never sets
\* back_refs_filled
EmitByteNeverFilled(st, c) ==
    LET put(w) ==
            IF ~w.ok THEN w
            ELSE [ok |-> TRUE,
                  d |-> [w.d EXCEPT
                           !.out_buf = Store(@, w.d.out_pos, c),
                           !.out_pos = @ + 1,
                           !.back_refs = Store(@, w.d.back_refs_pos, c),
                           !.back_refs_pos = (@ + 1) % MAX_DISTANCE,
                           !.emitted = Append(@, c)]]
    IN  put(IF st.d.out_pos = OUT_BUF_SIZE THEN Flush(st.d)
            ELSE [ok |-> TRUE, d |-> st.d])

\* one iteration of the loop of handle_literal_codes (lines 235-247);
\* emitted is the history of every byte handed to it
EmitByte(st, c) ==
    LET put(w) ==
            IF ~w.ok THEN w
            ELSE [ok |-> TRUE,
                  d |-> [w.d EXCEPT
                           !.out_buf = Store(@, w.d.out_pos, c),
                           !.out_pos = @ + 1,
                           !.back_refs = Store(@, w.d.back_refs_pos, c),
                           !.back_refs_pos = (@ + 1) % MAX_DISTANCE,
                           !.back_refs_filled =
                               @ \/ (w.d.back_refs_pos + 1) % MAX_DISTANCE = 0,
                           !.emitted = Append(@, c)]]
    IN  put(IF st.d.out_pos = OUT_BUF_SIZE THEN Flush(st.d)
            ELSE [ok |-> TRUE, d |-> st.d])

\* handle_literal_codes: [ok, d]
handle_literal_codes(d, bytes, len) ==
    LET finish(r) ==
            IF ~r.ok THEN r
            ELSE IF r.d.out_pos = OUT_BUF_SIZE THEN Flush(r.d)
            ELSE r
    IN  finish(ForLoop(LAMBDA st, i: EmitByte(st, At(bytes, i)),
                       [ok |-> TRUE, d |-> d], 0, len - 1))

\* lines 264-267 of decompress_block_type_00: the cursor moved to the next
\* byte boundary; the bits skipped count as consumed
AlignToByte(d) ==
    IF d.byte_pos # 0
    THEN [d EXCEPT !.buf_pos = @ + 1, !.byte_pos = 0,
                   !.bits = @ + (8 - d.byte_pos)]
    ELSE d

\* the two 16-bit fields of a stored block at the aligned cursor d1
StoredLEN(d1) == At(d1.buf, d1.buf_pos) + 256 * At(d1.buf, d1.buf_pos + 1)
StoredNLEN(d1) ==
    At(d1.buf, d1.buf_pos + 2) + 256 * At(d1.buf, d1.buf_pos + 3)

\* a faulty decompress_block_type_00 that does not compare LEN with ~NLEN
decompress_block_type_00_no_nlen(d) ==
    LET finished(ok, x, LEN) ==
            IF ~ok THEN [ok |-> FALSE, d |-> x]
            ELSE [ok |-> TRUE,
                  d |-> [x EXCEPT !.buf_pos = @ + LEN, !.bits = @ + 8 * LEN]]
        done(r, LEN, before) ==
            finished(r.ok,
                     NoteRead(r.d, r.d.buf_pos + Len(r.d.emitted) - before - 1),
                     LEN)
        stored(d2, LEN) ==
            IF d2.buf_pos >= d2.buf_len \/ d2.buf_len - d2.buf_pos < LEN
            THEN [ok |-> FALSE, d |-> d2]
            ELSE done(handle_literal_codes(
                          d2, SubSeq(d2.buf, d2.buf_pos + 1, d2.buf_pos + LEN),
                          LEN), LEN, Len(d2.emitted))
        aligned(d1) ==
            IF d1.buf_pos >= d1.buf_len \/ d1.buf_len - d1.buf_pos < 4
            THEN [ok |-> FALSE, d |-> d1]
            ELSE stored(NoteRead([d1 EXCEPT !.buf_pos = @ + 4, !.bits = @ + 32],
                                 d1.buf_pos + 3),
                        StoredLEN(d1))
    IN  aligned(AlignToByte(d))

\* decompress_block_type_00: [ok, d]. LEN and NLEN are read at the aligned
\* cursor; handle_literal_codes reads one byte of the block for each byte
\* it emits (before is the number emitted before the block).
decompress_block_type_00(d) ==
    LET finished(ok, x, LEN) ==
            IF ~ok THEN [ok |-> FALSE, d |-> x]
            ELSE [ok |-> TRUE,
                  d |-> [x EXCEPT !.buf_pos = @ + LEN, !.bits = @ + 8 * LEN]]
        done(r, LEN, before) ==
            finished(r.ok,
                     NoteRead(r.d, r.d.buf_pos + Len(r.d.emitted) - before - 1),
                     LEN)
        stored(d2, LEN, NLEN) ==
            IF LEN # 65535 - NLEN THEN [ok |-> FALSE, d |-> d2]
            ELSE IF d2.buf_pos >= d2.buf_len \/ d2.buf_len - d2.buf_pos < LEN
            THEN [ok |-> FALSE, d |-> d2]
            ELSE done(handle_literal_codes(
                          d2, SubSeq(d2.buf, d2.buf_pos + 1, d2.buf_pos + LEN),
                          LEN), LEN, Len(d2.emitted))
        aligned(d1) ==
            IF d1.buf_pos >= d1.buf_len \/ d1.buf_len - d1.buf_pos < 4
            THEN [ok |-> FALSE, d |-> d1]
            ELSE stored(NoteRead([d1 EXCEPT !.buf_pos = @ + 4, !.bits = @ + 32],
                                 d1.buf_pos + 3),
                        StoredLEN(d1), StoredNLEN(d1))
    IN  aligned(AlignToByte(d))

-----------------------------------------------------------------------------
(* decompress.c: lengths, distances and back references *)

\* {length, extra_bits} for length codes 257 to 285
length_data ==
    << <<3, 0>>, <<4, 0>>, <<5, 0>>, <<6, 0>>, <<7, 0>>, <<8, 0>>, <<9, 0>>,
       <<10, 0>>, <<11, 1>>, <<13, 1>>, <<15, 1>>, <<17, 1>>, <<19, 2>>,
       <<23, 2>>, <<27, 2>>, <<31, 2>>, <<35, 3>>, <<43, 3>>, <<51, 3>>,
       <<59, 3>>, <<67, 4>>, <<83, 4>>, <<99, 4>>, <<115, 4>>, <<131, 5>>,
       <<163, 5>>, <<195, 5>>, <<227, 5>>, <<258, 0>> >>

\* {distance, extra_bits} for distance codes 0 to 29
dist_data ==
    << <<1, 0>>, <<2, 0>>, <<3, 0>>, <<4, 0>>, <<5, 1>>, <<7, 1>>, <<9, 2>>,
       <<13, 2>>, <<17, 3>>, <<25, 3>>, <<33, 4>>, <<49, 4>>, <<65, 5>>,
       <<97, 5>>, <<129, 6>>, <<193, 6>>, <<257, 7>>, <<385, 7>>, <<513, 8>>,
       <<769, 8>>, <<1025, 9>>, <<1537, 9>>, <<2049, 10>>, <<3073, 10>>,
       <<4097, 11>>, <<6145, 11>>, <<8193, 12>>, <<12289, 12>>,
       <<16385, 13>>, <<24577, 13>> >>

is_length_code(code) == code >= 257 /\ code <= 285
is_literal_code(code) == code >= 0 /\ code <= 255
is_literal_length_code(code) == code >= 0 /\ code <= 285
is_distance_code(code) == code >= 0 /\ code <= 29
is_code_length_code(code) == code >= 0 /\ code <= 18

\* a faulty length_from_length_code that lets symbol 284 with extra bits 31
\* through
length_from_length_code_284_31(d, code) ==
    LET result(r, length_start) ==
            IF ~r.ok THEN [ok |-> FALSE, d |-> r.d, length |-> 0]
            ELSE IF \/ (length_start + r.value) % 65536 > 258
                    \/ (length_start + r.value) % 65536 < 3
            THEN [ok |-> FALSE, d |-> r.d, length |-> 0]
            ELSE [ok |-> TRUE, d |-> r.d,
                  length |-> (length_start + r.value) % 65536]
    IN  IF ~is_length_code(code) THEN [ok |-> FALSE, d |-> d, length |-> 0]
        ELSE result(read_bits(d, At(length_data, code - 257)[2]),
                    At(length_data, code - 257)[1])

\* length_from_length_code: [ok, d, length]
length_from_length_code(d, code) ==
    LET result(r, length_start) ==
            IF ~r.ok THEN [ok |-> FALSE, d |-> r.d, length |-> 0]
            ELSE IF code = 284 /\ r.value = 31
            THEN [ok |-> FALSE, d |-> r.d, length |-> 0]
            ELSE IF \/ (length_start + r.value) % 65536 > 258
                    \/ (length_start + r.value) % 65536 < 3
            THEN [ok |-> FALSE, d |-> r.d, length |-> 0]
            ELSE [ok |-> TRUE, d |-> r.d,
                  length |-> (length_start + r.value) % 65536]
    IN  IF ~is_length_code(code) THEN [ok |-> FALSE, d |-> d, length |-> 0]
        ELSE result(read_bits(d, At(length_data, code - 257)[2]),
                    At(length_data, code - 257)[1])

\* distance_from_distance_code: [ok, d, distance]
distance_from_distance_code(d, code) ==
    LET result(r, distance_start) ==
            IF ~r.ok THEN [ok |-> FALSE, d |-> r.d, distance |-> 0]
            ELSE IF \/ (distance_start + r.value) % 65536 < 1
                    \/ (distance_start + r.value) % 65536 > 32768
            THEN [ok |-> FALSE, d |-> r.d, distance |-> 0]
            ELSE [ok |-> TRUE, d |-> r.d,
                  distance |-> (distance_start + r.value) % 65536]
    IN  IF ~is_distance_code(code) THEN [ok |-> FALSE, d |-> d, distance |-> 0]
        ELSE result(read_bits(d, At(dist_data, code)[2]),
                    At(dist_data, code)[1])

\* the value read from a cell of back_refs that was never written: the array
\* is an uninitialised local of decompress_blocks
UNINIT == -1

\* data->back_refs[i]
BackRef(d, i) == IF i < Len(d.back_refs) THEN At(d.back_refs, i) ELSE UNINIT

\* (data->back_refs_pos - distance + MAX_DISTANCE) % MAX_DISTANCE
copy_start_pos(d, distance) ==
    (d.back_refs_pos - distance + MAX_DISTANCE) % MAX_DISTANCE

\* the test of lines 416-417: is the back reference refused
InvalidBackReference(d, distance) ==
    ~d.back_refs_filled /\ copy_start_pos(d, distance) >= d.back_refs_pos

\* a faulty step of the read index that never goes back to copy_start_pos
next_copy_pos_no_restart(d, distance, tmp) == (tmp + 1) % MAX_DISTANCE

\* tmp = (tmp + 1) % MAX_DISTANCE; if (tmp == back_refs_pos) tmp =
\* copy_start_pos (lines 423-426)
next_copy_pos(d, distance, tmp) ==
    IF (tmp + 1) % MAX_DISTANCE = d.back_refs_pos
    THEN copy_start_pos(d, distance)
    ELSE (tmp + 1) % MAX_DISTANCE

\* a faulty read loop that never goes back to copy_start_pos: it reads
\* length consecutive cells of the window, as a memcpy would
bytes_to_copy_no_restart(d, length, distance) ==
    ForLoop(LAMBDA st, i:
                [ok |-> TRUE,
                 bytes |-> Append(st.bytes, BackRef(d, st.tmp)),
                 tmp |-> (st.tmp + 1) % MAX_DISTANCE],
            [ok |-> TRUE, bytes |-> <<>>, tmp |-> copy_start_pos(d, distance)],
            0, length - 1).bytes

\* the read loop of copy_bytes_from_distance (lines 421-429): bytes_to_copy
bytes_to_copy(d, length, distance) ==
    ForLoop(LAMBDA st, i:
                [ok |-> TRUE,
                 bytes |-> Append(st.bytes, BackRef(d, st.tmp)),
                 tmp |-> next_copy_pos(d, distance, st.tmp)],
            [ok |-> TRUE, bytes |-> <<>>, tmp |-> copy_start_pos(d, distance)],
            0, length - 1).bytes

\* the indices tmp of data->back_refs[tmp] read by the loop of lines
\* 421-429, in the order they are read
copy_reads(d, length, distance) ==
    ForLoop(LAMBDA st, i:
                [ok |-> TRUE,
                 reads |-> Append(st.reads, st.tmp),
                 tmp |-> next_copy_pos(d, distance, st.tmp)],
            [ok |-> TRUE, reads |-> <<>>, tmp |-> copy_start_pos(d, distance)],
            0, length - 1).reads

\* copy_bytes_from_distance: [ok, d]
copy_bytes_from_distance(d, length, distance) ==
    IF InvalidBackReference(d, distance) THEN [ok |-> FALSE, d |-> d]
    ELSE handle_literal_codes(d, bytes_to_copy(d, length, distance), length)

-----------------------------------------------------------------------------
(* decompress.c: the symbol-expansion loop of a Huffman block *)

\* history of the last operation of a block decoder. kind is "none", "lit",
\* "end", "copy" (a length symbol whose distance was decoded) or "stored";
\* n = the bytes the member had emitted before it. For a copy: its length
\* and distance, the distance symbol dsym, the cursor (byte, bit) the symbol
\* was read at, and whether the block is a fixed one. For a stored block:
\* length = LEN, nlen = NLEN and avail = the bytes of input left at the
\* aligned cursor (LEN and NLEN are -1 when fewer than 4 are left).
NoOp ==
    [kind |-> "none", length |-> 0, distance |-> 0, n |-> 0,
     dsym |-> -1, at |-> <<0, 0>>, fixed |-> FALSE, nlen |-> 0, avail |-> 0]

\* bytes emitted so far in the current member (history)
Emitted(d) == Len(d.emitted) - d.member_base

\* the distance symbol of a fixed block (lines 494-502): 5 bits read directly
DistanceSymbol01(d) ==
    LET result(t) == [ok |-> t.ok, d |-> t.d, code |-> t.value % 256]
    IN  result(read_bits(d, 5))

\* the distance symbol of a dynamic block (lines 748-755): from the tree
DistanceSymbol10(d, d_root) ==
    LET result(e) ==
            [ok |-> e.node # NULL, d |-> e.d,
             code |-> IF e.node # NULL THEN d_root[e.node].code % 256 ELSE 0]
    IN  result(find_huffman_code(d, d_root))

\* the distance symbol of the block being decoded: fixed (block type 01) or
\* from the distance tree (block type 10)
DistanceSymbol(d, d_root, fixed) ==
    IF fixed THEN DistanceSymbol01(d) ELSE DistanceSymbol10(d, d_root)

\* a length symbol (lines 485-517 and 739-771): the length l, the distance
\* symbol s, the distance dd and the copy c; [st, d, last]
BackReference(d, code, d_root, fixed) ==
    LET copied(l, s, dd, c) ==
            [st |-> IF c.ok THEN "cont" ELSE "fail", d |-> c.d,
             last |-> [NoOp EXCEPT !.kind = "copy", !.n = Emitted(d),
                                   !.length = l.length,
                                   !.distance = dd.distance,
                                   !.dsym = s.code,
                                   !.at = <<l.d.buf_pos, l.d.byte_pos>>,
                                   !.fixed = fixed]]
        with_distance(l, s, dd) ==
            IF ~dd.ok
            THEN [st |-> "fail", d |-> dd.d,
                  last |-> [NoOp EXCEPT !.dsym = s.code,
                                        !.at = <<l.d.buf_pos, l.d.byte_pos>>,
                                        !.fixed = fixed]]
            ELSE copied(l, s, dd,
                        copy_bytes_from_distance(dd.d, l.length, dd.distance))
        with_symbol(l, s) ==
            IF ~s.ok
            THEN [st |-> "fail", d |-> s.d, last |-> NoOp]
            ELSE with_distance(l, s, distance_from_distance_code(s.d, s.code))
        with_length(l) ==
            IF ~l.ok THEN [st |-> "fail", d |-> l.d, last |-> NoOp]
            ELSE with_symbol(l, DistanceSymbol(l.d, d_root, fixed))
    IN  with_length(length_from_length_code(d, code))

\* one iteration of the while (true) loop of a fixed or dynamic block (lines
\* 463-517 and 714-771): [st, d, last], st = "cont", "end" (symbol 256) or
\* "fail" (return false)
SymbolStep(d, root, d_root, fixed) ==
    LET literal(w) ==
            [st |-> IF w.ok THEN "cont" ELSE "fail", d |-> w.d,
             last |-> [NoOp EXCEPT !.kind = "lit", !.n = Emitted(d)]]
        symbol(e, code) ==
            IF ~is_literal_length_code(code)
            THEN [st |-> "fail", d |-> e.d, last |-> NoOp]
            ELSE IF code = 256
            THEN [st |-> "end", d |-> e.d,
                  last |-> [NoOp EXCEPT !.kind = "end"]]
            ELSE IF is_literal_code(code)
            THEN literal(handle_literal_codes(e.d, <<code % 256>>, 1))
            ELSE BackReference(e.d, code, d_root, fixed)
        found(e) ==
            IF e.node = NULL THEN [st |-> "fail", d |-> e.d, last |-> NoOp]
            ELSE symbol(e, root[e.node].code)
    IN  found(find_huffman_code(d, root))

\* fixed huffman code lengths for block type 01 (lines 443-454)
lengths_01 ==
    [i \in 1..288 |-> IF i - 1 < 144 THEN 8
                      ELSE IF i - 1 < 256 THEN 9
                      ELSE IF i - 1 < 280 THEN 7 ELSE 8]

\* the tree of a fixed block (line 456) when no malloc fails
root_01 == create_huffman_tree(lengths_01, 288, 15, 0)

-----------------------------------------------------------------------------
(* decompress.c: the header of a dynamic block *)

cl_code_serial ==
    <<16, 17, 18, 0, 8, 7, 9, 6, 10, 5, 11, 4, 12, 3, 13, 2, 14, 1, 15>>

\* lines 583-592: the cl_code_cnt code length code lengths, 3 bits each
cl_code_lengths(d, cl_code_cnt) ==
    ForLoop(LAMBDA st, i:
                LET store(r) ==
                        IF ~r.ok THEN [st EXCEPT !.ok = FALSE, !.d = r.d]
                        ELSE [st EXCEPT
                                !.d = r.d,
                                !.cl[At(cl_code_serial, i) + 1] =
                                    r.value % 256]
                IN  store(read_bits(st.d, 3)),
            [ok |-> TRUE, d |-> d, cl |-> [i \in 1..19 |-> 0]],
            0, cl_code_cnt - 1)

\* lines 526-615 of decompress_block_type_10: HLIT, HDIST, HCLEN, the code
\* length code and its tree; [ok, d, ll_code_cnt, d_code_cnt, cl_root]
Block10Header(d) ==
    LET bad(x) == [ok |-> FALSE, d |-> x, ll_code_cnt |-> 0, d_code_cnt |-> 0,
                   cl_root |-> NoTree]
        tree(cl, ll_code_cnt, d_code_cnt, cl_root) ==
            IF cl_root = NoTree THEN bad(cl.d)
            ELSE [ok |-> TRUE, d |-> Malloced(cl.d, Len(cl_root)),
                  ll_code_cnt |-> ll_code_cnt,
                  d_code_cnt |-> d_code_cnt, cl_root |-> cl_root]
        code_lengths(cl, ll_code_cnt, d_code_cnt) ==
            IF ~cl.ok THEN bad(cl.d)
            ELSE tree(cl, ll_code_cnt, d_code_cnt,
                      create_huffman_tree(cl.cl, 19, 7, cl.d.malloc_fail_at))
        hclen(r3, ll_code_cnt, d_code_cnt) ==
            LET HCLEN == r3.value % 256
                cl_code_cnt == (HCLEN + 4) % 256
            IN  IF ~r3.ok THEN bad(r3.d)
                ELSE IF cl_code_cnt < 4 \/ cl_code_cnt > 19 THEN bad(r3.d)
                ELSE code_lengths(cl_code_lengths(r3.d, cl_code_cnt),
                                  ll_code_cnt, d_code_cnt)
        hdist(r2, ll_code_cnt) ==
            LET HDIST == r2.value % 256
                d_code_cnt == (HDIST + 1) % 256
            IN  IF ~r2.ok THEN bad(r2.d)
                ELSE IF d_code_cnt < 1 \/ d_code_cnt > 32 THEN bad(r2.d)
                ELSE hclen(read_bits(r2.d, 4), ll_code_cnt, d_code_cnt)
        hlit(r1) ==
            LET HLIT == r1.value % 256
                ll_code_cnt == HLIT + 257
            IN  IF ~r1.ok THEN bad(r1.d)
                ELSE IF ll_code_cnt < 257 \/ ll_code_cnt > 286 THEN bad(r1.d)
                ELSE hdist(read_bits(r1.d, 5), ll_code_cnt)
    IN  hlit(read_bits(d, 5))

\* lines 637-643, 660-665, 686-691: store one code length at cnt, then cnt++
PutLength(b, v) ==
    IF b.cnt < b.ll_code_cnt
    THEN [b EXCEPT !.ll_code_lengths[b.cnt + 1] = v, !.cnt = @ + 1]
    ELSE [b EXCEPT !.d_code_lengths[b.cnt - b.ll_code_cnt + 1] = v,
                   !.cnt = @ + 1]

\* a faulty repeat loop that runs one time too few
RepeatOneShort(b, v, n) ==
    ForLoop(LAMBDA st, i:
                IF st.b.cnt >= st.b.total THEN [st EXCEPT !.ok = FALSE]
                ELSE [st EXCEPT !.b = PutLength(st.b, v)],
            [ok |-> TRUE, b |-> b], 2, n)

\* the while (tmp--) loops (lines 654-666 and 680-692): n times v, failing
\* when cnt reaches total; st = [ok, b]
Repeat(b, v, n) ==
    ForLoop(LAMBDA st, i:
                IF st.b.cnt >= st.b.total THEN [st EXCEPT !.ok = FALSE]
                ELSE [st EXCEPT !.b = PutLength(st.b, v)],
            [ok |-> TRUE, b |-> b], 1, n)

\* one iteration of while (cnt < total) (lines 617-694): [ok, d, b]; cl_syms
\* is the history of the symbols decoded and of their repeat counts
CodeLengthStep(d, b) ==
    LET note(code, n) == [b EXCEPT !.cl_syms = Append(@, <<code, n>>)]
        repeated(x, rep) == [ok |-> rep.ok, d |-> x.d, b |-> rep.b]
        run(code, x, n) ==
            IF code = 16
            THEN repeated(x, Repeat(note(code, n), b.previous_code_length, n))
            ELSE repeated(x, Repeat([note(code, n) EXCEPT
                                        !.previous_code_length = 0], 0, n))
        count(code, x) ==
            IF ~x.ok THEN [ok |-> FALSE, d |-> x.d, b |-> b]
            ELSE run(code, x,
                     (x.value + (IF code = 16 THEN 3
                                 ELSE IF code = 17 THEN 3 ELSE 11)) % 65536)
        symbol(e, code) ==
            IF ~is_code_length_code(code)
            THEN [ok |-> FALSE, d |-> e.d, b |-> b]
            ELSE IF code = 16 /\ b.cnt = 0
            THEN [ok |-> FALSE, d |-> e.d, b |-> note(code, 0)]
            ELSE IF code >= 0 /\ code <= 15
            THEN [ok |-> TRUE, d |-> e.d,
                  b |-> [PutLength(note(code, 1), code)
                           EXCEPT !.previous_code_length = code]]
            ELSE count(code,
                       read_bits(e.d, IF code = 16 THEN 2
                                      ELSE IF code = 17 THEN 3 ELSE 7))
        found(e) ==
            IF e.node = NULL THEN [ok |-> FALSE, d |-> e.d, b |-> b]
            ELSE symbol(e, b.cl_root[e.node].code)
    IN  found(find_huffman_code(d, b.cl_root))

-----------------------------------------------------------------------------
(* decompress.c: gzip member framing *)

\* while (buf[pos++]) { if (pos >= buf_len) return false; }: [ok, pos]
RECURSIVE SkipString(_, _, _)
SkipString(buf, buf_len, pos) ==
    IF At(buf, pos) = 0 THEN [ok |-> TRUE, pos |-> pos + 1]
    ELSE IF pos + 1 >= buf_len THEN [ok |-> FALSE, pos |-> pos + 1]
    ELSE SkipString(buf, buf_len, pos + 1)

\* check_member_header: [ok, pos, hi]; hi is the highest index of buf read
\* (-1 if none). MTIME, XFL, OS and CRC16 are read and dropped; the XLEN
\* bytes of the extra field are skipped unread. p1 is the cursor after the
\* 10 fixed bytes; extra, name and comment are the results after each
\* optional field.
check_member_header(buf, buf_len, buf_pos_) ==
    LET bad(h) == [ok |-> FALSE, pos |-> buf_pos_, hi |-> h]
        pos == buf_pos_
        ID1 == At(buf, pos)
        ID2 == At(buf, pos + 1)
        CM == At(buf, pos + 2)
        FLG == At(buf, pos + 3)
        FHCRC == BitOf(FLG, 1) = 1
        FEXTRA == BitOf(FLG, 2) = 1
        FNAME == BitOf(FLG, 3) = 1
        FCOMMENT == BitOf(FLG, 4) = 1
        RESERVED == BitOf(FLG, 5) = 1 \/ BitOf(FLG, 6) = 1 \/ BitOf(FLG, 7) = 1
        p1 == pos + 10
        XLEN == At(buf, p1) + 256 * At(buf, p1 + 1)
        skipped(r) ==
            IF ~r.ok THEN bad(r.pos - 1)
            ELSE [ok |-> TRUE, pos |-> r.pos, hi |-> r.pos - 1]
        after_comment(comment) ==
            IF ~comment.ok THEN comment
            ELSE IF ~FHCRC THEN comment
            ELSE IF \/ comment.pos >= buf_len
                    \/ buf_len - comment.pos < 2
            THEN bad(comment.hi)
            ELSE [ok |-> TRUE, pos |-> comment.pos + 2,
                  hi |-> comment.pos + 1]
        after_name(name) ==
            after_comment(IF ~name.ok THEN name
                          ELSE IF ~FCOMMENT THEN name
                          ELSE IF name.pos >= buf_len THEN bad(name.hi)
                          ELSE skipped(SkipString(buf, buf_len, name.pos)))
        after_extra(extra) ==
            after_name(IF ~extra.ok THEN extra
                       ELSE IF ~FNAME THEN extra
                       ELSE IF extra.pos >= buf_len THEN bad(extra.hi)
                       ELSE skipped(SkipString(buf, buf_len, extra.pos)))
    IN  IF pos >= buf_len \/ buf_len - pos < 10 THEN bad(-1)
        ELSE IF ID1 # 31 THEN bad(pos)
        ELSE IF ID2 # 139 THEN bad(pos + 1)
        ELSE IF CM # 8 THEN bad(pos + 2)
        ELSE IF RESERVED THEN bad(pos + 3)
        ELSE after_extra(IF ~FEXTRA
                         THEN [ok |-> TRUE, pos |-> p1, hi |-> p1 - 1]
                         ELSE IF p1 >= buf_len \/ buf_len - p1 < 2
                         THEN bad(p1 - 1)
                         ELSE IF \/ p1 + 2 >= buf_len
                                 \/ buf_len - (p1 + 2) < XLEN
                         THEN bad(p1 + 1)
                         ELSE [ok |-> TRUE, pos |-> p1 + 2 + XLEN,
                               hi |-> p1 + 1])

\* a faulty check_member_trailer that asks for the 4 bytes of CRC32 only
\* and reads ISIZE as well
check_member_trailer_short_check(buf, buf_len, buf_pos_) ==
    IF buf_pos_ >= buf_len \/ buf_len - buf_pos_ < 4
    THEN [ok |-> FALSE, pos |-> buf_pos_, hi |-> -1]
    ELSE [ok |-> TRUE, pos |-> buf_pos_ + 8, hi |-> buf_pos_ + 7]

\* check_member_trailer: [ok, pos, hi]; hi is the highest index of buf
\* read (-1 if none). CRC32 and ISIZE are read and dropped.
check_member_trailer(buf, buf_len, buf_pos_) ==
    IF buf_pos_ >= buf_len \/ buf_len - buf_pos_ < 8
    THEN [ok |-> FALSE, pos |-> buf_pos_, hi |-> -1]
    ELSE [ok |-> TRUE, pos |-> buf_pos_ + 8, hi |-> buf_pos_ + 7]

-----------------------------------------------------------------------------
(* decompress.c: decompress_blocks and decompress_members, step by step *)

\* no block decoder is running: its locals do not exist. live counts the
\* Huffman trees allocated and not freed (history).
NoBlk ==
    [BFINAL |-> FALSE, root |-> NoTree, cl_root |-> NoTree,
     ll_root |-> NoTree, d_root |-> NoTree, ll_code_cnt |-> 0,
     d_code_cnt |-> 0, total |-> 0, cnt |-> 0, previous_code_length |-> 0,
     ll_code_lengths |-> <<>>, d_code_lengths |-> <<>>, cl_syms |-> <<>>,
     live |-> 0, last |-> NoOp]

\* the arguments of decompress_members before its first statement: the
\* input buffer and the output stream; the writer fails on call fail_at
\* without taking a byte of it, and no malloc fails.
\* No byte of the input has been read: max_read = -1.
StartData(buf, fail_at) ==
    [buf |-> buf, buf_len |-> Len(buf), buf_pos |-> 0, byte_pos |-> 0,
     back_refs |-> <<>>, back_refs_pos |-> 0, back_refs_filled |-> FALSE,
     out_buf |-> <<>>, out_pos |-> 0,
     f |-> <<>>, f_calls |-> 0, f_fail_at |-> fail_at, f_short |-> 0,
     malloc_fail_at |-> 0,
     bits |-> 0, start_pos |-> 0, emitted |-> <<>>, member_base |-> 0,
     max_read |-> -1]

\* a faulty decompress_blocks that keeps the window of the member before
NewDataKeepsWindow(old, buf_pos_) ==
    [buf |-> old.buf, buf_len |-> old.buf_len, buf_pos |-> buf_pos_,
     byte_pos |-> 0,
     back_refs |-> old.back_refs, back_refs_pos |-> old.back_refs_pos,
     back_refs_filled |-> old.back_refs_filled,
     out_buf |-> <<>>, out_pos |-> 0,
     f |-> old.f, f_calls |-> old.f_calls, f_fail_at |-> old.f_fail_at,
     f_short |-> old.f_short, malloc_fail_at |-> old.malloc_fail_at,
     bits |-> 0, start_pos |-> buf_pos_, emitted |-> old.emitted,
     member_base |-> Len(old.emitted), max_read |-> old.max_read]

\* lines 783-796 of decompress_blocks: a new struct decompression_data over
\* the same input and output stream. back_refs and out_buf are
\* uninitialised: no cell written. bits, start_pos, emitted and member_base
\* and max_read are history.
NewData(old, buf_pos_) ==
    [buf |-> old.buf, buf_len |-> old.buf_len, buf_pos |-> buf_pos_,
     byte_pos |-> 0,
     back_refs |-> <<>>, back_refs_pos |-> 0, back_refs_filled |-> FALSE,
     out_buf |-> <<>>, out_pos |-> 0,
     f |-> old.f, f_calls |-> old.f_calls, f_fail_at |-> old.f_fail_at,
     f_short |-> old.f_short, malloc_fail_at |-> old.malloc_fail_at,
     bits |-> 0, start_pos |-> buf_pos_, emitted |-> old.emitted,
     member_base |-> Len(old.emitted), max_read |-> old.max_read]

\* lines 799-830: the 3 header bits; [ok, d, BFINAL, BTYPE]
BlockHeader(d) ==
    LET bad(x) == [ok |-> FALSE, d |-> x, BFINAL |-> FALSE, BTYPE |-> 3]
        third(d3, BFINAL, BTYPE_LSB, BTYPE_MSB) ==
            IF d3.buf_pos >= d3.buf_len THEN bad(d3)
            ELSE IF BTYPE_MSB = 1 /\ BTYPE_LSB = 1 THEN bad(d3)
            ELSE [ok |-> TRUE, d |-> d3, BFINAL |-> BFINAL,
                  BTYPE |-> 2 * BTYPE_MSB + BTYPE_LSB]
        second(d2, BFINAL, BTYPE_LSB) ==
            IF d2.buf_pos >= d2.buf_len THEN bad(d2)
            ELSE third(increment_bit_position(NoteRead(d2, d2.buf_pos)),
                       BFINAL, BTYPE_LSB, CurrentBit(d2))
        first(d1, BFINAL) ==
            IF d1.buf_pos >= d1.buf_len THEN bad(d1)
            ELSE second(increment_bit_position(NoteRead(d1, d1.buf_pos)),
                        BFINAL, CurrentBit(d1))
    IN  IF d.buf_pos >= d.buf_len THEN bad(d)
        ELSE first(increment_bit_position(NoteRead(d, d.buf_pos)),
                   CurrentBit(d) = 1)

\* a faulty return of decompress_blocks that leaves the cursor in the
\* middle of a byte
BlocksReturnNoAlign(d) ==
    IF d.out_pos # 0 THEN Flush(d) ELSE [ok |-> TRUE, d |-> d]

\* a faulty return of decompress_blocks that forgets the final flush
BlocksReturnNoFlush(d) ==
    [ok |-> TRUE,
     d |-> IF d.byte_pos # 0 THEN [d EXCEPT !.buf_pos = @ + 1] ELSE d]

\* lines 856-869: the final flush and the byte alignment; [ok, d]
BlocksReturn(d) ==
    LET align(w) ==
            IF ~w.ok THEN w
            ELSE [ok |-> TRUE,
                  d |-> IF w.d.byte_pos # 0
                        THEN [w.d EXCEPT !.buf_pos = @ + 1]
                        ELSE w.d]
    IN  align(IF d.out_pos # 0 THEN Flush(d) ELSE [ok |-> TRUE, d |-> d])

\* The machine: m = [pc, buf_pos, data, blk]. Each Do* is one step of the
\* code from the place m.pc names.
Fail(m, d, b) == [m EXCEPT !.pc = "fail", !.data = d, !.blk = b]

\* decompress_members, line 877
DoHeader(m) ==
    LET go(r) ==
            IF ~r.ok
            THEN [m EXCEPT !.pc = "fail", !.data = NoteRead(@, r.hi)]
            ELSE [m EXCEPT !.pc = "enter", !.buf_pos = r.pos,
                           !.data = NoteRead(@, r.hi)]
    IN  go(check_member_header(m.data.buf, m.data.buf_len, m.buf_pos))

\* decompress_blocks, lines 783-796
DoEnter(m) ==
    [m EXCEPT !.pc = "block", !.data = NewData(m.data, m.buf_pos),
              !.blk = [NoBlk EXCEPT !.live = m.blk.live]]

\* decompress_blocks, lines 799-850: the block header and the dispatch
DoBlock(m) ==
    LET go(h) ==
            IF ~h.ok THEN Fail(m, h.d, m.blk)
            ELSE [m EXCEPT !.pc = CASE h.BTYPE = 0 -> "b00"
                                    [] h.BTYPE = 1 -> "b01"
                                    [] OTHER -> "b10",
                           !.data = h.d,
                           !.blk = [m.blk EXCEPT !.BFINAL = h.BFINAL]]
    IN  go(BlockHeader(m.data))

\* history of a stored block decoded from cursor d: what it read (LEN, NLEN)
\* and the input left at the aligned cursor d1
StoredOp(d, d1) ==
    [NoOp EXCEPT
       !.kind = "stored", !.n = Emitted(d),
       !.avail = d1.buf_len - d1.buf_pos,
       !.length = IF d1.buf_len - d1.buf_pos >= 4 THEN StoredLEN(d1) ELSE -1,
       !.nlen = IF d1.buf_len - d1.buf_pos >= 4 THEN StoredNLEN(d1) ELSE -1]

\* decompress_block_type_00
DoBlock00(m) ==
    LET go(r, b) ==
            IF ~r.ok THEN Fail(m, r.d, b)
            ELSE [m EXCEPT !.pc = "blockend", !.data = r.d, !.blk = b]
    IN  go(decompress_block_type_00(m.data),
           [m.blk EXCEPT !.last = StoredOp(m.data, AlignToByte(m.data))])

\* decompress_block_type_01, lines 443-460
DoBlock01(m) ==
    LET built(root) ==
            IF root = NoTree THEN Fail(m, m.data, m.blk)
            ELSE [m EXCEPT !.pc = "sym01",
                           !.data = Malloced(@, Len(root)),
                           !.blk = [m.blk EXCEPT !.root = root,
                                                 !.live = @ + 1]]
    IN  built(IF m.data.malloc_fail_at = 0 THEN root_01
              ELSE create_huffman_tree(lengths_01, 288, 15,
                                       m.data.malloc_fail_at))

\* decompress_block_type_01, lines 462-521: one symbol; the tree is freed
\* after symbol 256 only
DoSymbol01(m) ==
    LET go(r) ==
            IF r.st = "fail"
            THEN Fail(m, r.d, [m.blk EXCEPT !.last = r.last])
            ELSE IF r.st = "end"
            THEN [m EXCEPT !.pc = "blockend", !.data = r.d,
                           !.blk = [m.blk EXCEPT !.last = r.last,
                                                 !.root = NoTree,
                                                 !.live = @ - 1]]
            ELSE [m EXCEPT !.data = r.d,
                           !.blk = [m.blk EXCEPT !.last = r.last]]
    IN  go(SymbolStep(m.data, m.blk.root, NoTree, TRUE))

\* decompress_block_type_10, lines 526-615
DoBlock10(m) ==
    LET go(h) ==
            IF ~h.ok THEN Fail(m, h.d, m.blk)
            ELSE [m EXCEPT
                    !.pc = "cl", !.data = h.d,
                    !.blk = [m.blk EXCEPT
                               !.cl_root = h.cl_root, !.live = @ + 1,
                               !.ll_code_cnt = h.ll_code_cnt,
                               !.d_code_cnt = h.d_code_cnt,
                               !.total = h.ll_code_cnt + h.d_code_cnt,
                               !.cnt = 0, !.previous_code_length = 0,
                               !.ll_code_lengths = [i \in 1..286 |-> 0],
                               !.d_code_lengths = [i \in 1..32 |-> 0]]]
    IN  go(Block10Header(m.data))

\* decompress_block_type_10, lines 617-694: one code length symbol
DoCodeLength(m) ==
    LET go(r) ==
            IF ~r.ok THEN Fail(m, r.d, r.b)
            ELSE [m EXCEPT !.data = r.d, !.blk = r.b]
    IN  go(CodeLengthStep(m.data, m.blk))

\* decompress_block_type_10, lines 696-711: the two trees of the block. The
\* code length tree is freed first; the distance tree is built only when
\* the literal/length tree was.
DoTrees10(m) ==
    LET freed == [m.blk EXCEPT !.cl_root = NoTree, !.live = @ - 1]
        second(d1, ll_root, d_root) ==
            IF d_root = NoTree
            THEN Fail(m, d1, [freed EXCEPT !.ll_root = ll_root,
                                           !.live = @ + 1])
            ELSE [m EXCEPT !.pc = "sym10",
                           !.data = Malloced(d1, Len(d_root)),
                           !.blk = [freed EXCEPT !.ll_root = ll_root,
                                                 !.d_root = d_root,
                                                 !.live = @ + 2]]
        with_ll(d1, ll_root) ==
            second(d1, ll_root,
                   create_huffman_tree(m.blk.d_code_lengths,
                                       m.blk.d_code_cnt, 15,
                                       d1.malloc_fail_at))
        first(ll_root) ==
            IF ll_root = NoTree THEN Fail(m, m.data, freed)
            ELSE with_ll(Malloced(m.data, Len(ll_root)), ll_root)
    IN  first(create_huffman_tree(m.blk.ll_code_lengths,
                                  m.blk.ll_code_cnt, 15,
                                  m.data.malloc_fail_at))

\* decompress_block_type_10, lines 713-777: one symbol; the trees are freed
\* after symbol 256 only
DoSymbol10(m) ==
    LET go(r) ==
            IF r.st = "fail"
            THEN Fail(m, r.d, [m.blk EXCEPT !.last = r.last])
            ELSE IF r.st = "end"
            THEN [m EXCEPT !.pc = "blockend", !.data = r.d,
                           !.blk = [m.blk EXCEPT !.last = r.last,
                                                 !.ll_root = NoTree,
                                                 !.d_root = NoTree,
                                                 !.live = @ - 2]]
            ELSE [m EXCEPT !.data = r.d,
                           !.blk = [m.blk EXCEPT !.last = r.last]]
    IN  go(SymbolStep(m.data, m.blk.ll_root, m.blk.d_root, FALSE))

\* a faulty decompress_blocks that, after a block that is not the last,
\* takes the cursor back to the first block of the member
DoBlockEndRewinds(m) ==
    LET go(r) ==
            IF ~r.ok THEN Fail(m, r.d, [NoBlk EXCEPT !.live = m.blk.live])
            ELSE [m EXCEPT !.pc = "trailer", !.data = r.d,
                           !.blk = [NoBlk EXCEPT !.live = m.blk.live],
                           !.buf_pos = r.d.buf_pos]
    IN  IF ~m.blk.BFINAL
        THEN [m EXCEPT !.pc = "block",
                       !.data = [m.data EXCEPT !.buf_pos = m.data.start_pos,
                                               !.byte_pos = 0],
                       !.blk = [NoBlk EXCEPT !.live = m.blk.live]]
        ELSE go(BlocksReturn(m.data))

\* decompress_blocks, lines 852-869: after a block
DoBlockEnd(m) ==
    LET go(r) ==
            IF ~r.ok THEN Fail(m, r.d, [NoBlk EXCEPT !.live = m.blk.live])
            ELSE [m EXCEPT !.pc = "trailer", !.data = r.d,
                           !.blk = [NoBlk EXCEPT !.live = m.blk.live],
                           !.buf_pos = r.d.buf_pos]
    IN  IF ~m.blk.BFINAL
        THEN [m EXCEPT !.pc = "block",
                       !.blk = [NoBlk EXCEPT !.live = m.blk.live]]
        ELSE go(BlocksReturn(m.data))

\* a faulty decompress_members that returns after the first member
DoTrailerOneMember(m) ==
    LET go(r) ==
            IF ~r.ok THEN [m EXCEPT !.pc = "fail"]
            ELSE [m EXCEPT !.pc = "ok", !.buf_pos = r.pos,
                           !.data = NoteRead(@, r.hi)]
    IN  go(check_member_trailer(m.data.buf, m.data.buf_len, m.buf_pos))

\* a faulty decompress_members that also stops when fewer bytes are left
\* than a member header has
DoTrailerIgnoresPadding(m) ==
    LET go(r) ==
            IF ~r.ok THEN [m EXCEPT !.pc = "fail"]
            ELSE [m EXCEPT !.pc = IF m.data.buf_len - r.pos < 10 THEN "ok"
                                  ELSE "header",
                           !.buf_pos = r.pos, !.data = NoteRead(@, r.hi)]
    IN  go(check_member_trailer(m.data.buf, m.data.buf_len, m.buf_pos))

\* decompress_members, lines 889-899
DoTrailer(m) ==
    LET go(r) ==
            IF ~r.ok THEN [m EXCEPT !.pc = "fail"]
            ELSE [m EXCEPT !.pc = IF r.pos = m.data.buf_len THEN "ok"
                                  ELSE "header",
                           !.buf_pos = r.pos, !.data = NoteRead(@, r.hi)]
    IN  go(check_member_trailer(m.data.buf, m.data.buf_len, m.buf_pos))

\* the step the code takes from m
Step(m) ==
    CASE m.pc = "header" -> DoHeader(m)
      [] m.pc = "enter" -> DoEnter(m)
      [] m.pc = "block" -> DoBlock(m)
      [] m.pc = "b00" -> DoBlock00(m)
      [] m.pc = "b01" -> DoBlock01(m)
      [] m.pc = "sym01" -> DoSymbol01(m)
      [] m.pc = "b10" -> DoBlock10(m)
      [] m.pc = "cl" /\ m.blk.cnt < m.blk.total -> DoCodeLength(m)
      [] m.pc = "cl" /\ m.blk.cnt >= m.blk.total -> DoTrees10(m)
      [] m.pc = "sym10" -> DoSymbol10(m)
      [] m.pc = "blockend" -> DoBlockEnd(m)
      [] m.pc = "trailer" -> DoTrailer(m)
      [] OTHER -> m

\* decompress_members(buf, buf_len, f) from its first statement
Start(buf, fail_at) ==
    [pc |-> "header", buf_pos |-> 0, data |-> StartData(buf, fail_at),
     blk |-> NoBlk]

\* decompress_members run to its return: the final machine (pc = "ok" for
\* return true, "fail" for return false)
RECURSIVE RunFrom(_)
RunFrom(m) == IF m.pc \in {"ok", "fail"} THEN m ELSE RunFrom(Step(m))

decompress_members(buf) == RunFrom(Start(buf, 0))

-----------------------------------------------------------------------------
(* Input buffers: whole gzip files, byte by byte. Every member has the 10
   byte header 1f 8b 08 00 00 00 00 00 00 03 and an all-zero trailer unless
   said otherwise. *)

\* one stored block: "abc"
STORED_abc ==
    <<31, 139, 8, 0, 0, 0, 0, 0, 0, 3, 1, 3, 0, 252, 255, 97, 98, 99, 0, 0,
      0, 0, 0, 0, 0, 0>>

\* one fixed block holding only symbol 256
FIXED_empty ==
    <<31, 139, 8, 0, 0, 0, 0, 0, 0, 3, 3, 0, 0, 0, 0, 0, 0, 0, 0, 0>>

\* fixed: 'a', then length 4 distance 1
FIXED_run ==
    <<31, 139, 8, 0, 0, 0, 0, 0, 0, 3, 75, 4, 1, 0, 0, 0, 0, 0, 0, 0, 0, 0>>

\* fixed: "abc", then length 7 distance 3
FIXED_overlap ==
    <<31, 139, 8, 0, 0, 0, 0, 0, 0, 3, 75, 76, 74, 134, 10, 0, 0, 0, 0, 0, 0,
      0, 0, 0>>

\* stored "xy" (not final), then fixed: length 3 distance 2, 'z'
STORED_then_FIXED ==
    <<31, 139, 8, 0, 0, 0, 0, 0, 0, 3, 0, 2, 0, 253, 255, 120, 121, 3, 134,
      42, 0, 0, 0, 0, 0, 0, 0, 0, 0>>

\* fixed "ab" (not final), then stored "cd"
FIXED_then_STORED ==
    <<31, 139, 8, 0, 0, 0, 0, 0, 0, 3, 74, 76, 2, 4, 2, 0, 253, 255, 99, 100,
      0, 0, 0, 0, 0, 0, 0, 0>>

\* fixed: length 3 distance 1 as the first symbol
FIXED_first_is_copy ==
    <<31, 139, 8, 0, 0, 0, 0, 0, 0, 3, 3, 2, 0, 0, 0, 0, 0, 0, 0, 0, 0>>

\* stored, LEN = 3 and NLEN = 3
STORED_bad_nlen ==
    <<31, 139, 8, 0, 0, 0, 0, 0, 0, 3, 1, 3, 0, 3, 0, 97, 98, 99, 0, 0, 0, 0,
      0, 0, 0, 0>>

\* fixed "ab", length 6 distance 2, the distance symbol written as
\* RFC 1951 encoders write it (Huffman code 00001, first bit first)
FIXED_rfc_abab ==
    <<31, 139, 8, 0, 0, 0, 0, 0, 0, 3, 75, 76, 130, 64, 0, 0, 0, 0, 0, 0, 0,
      0, 0>>

\* dynamic: 'a', length 3 distance 1
DYN_ok ==
    <<31, 139, 8, 0, 0, 0, 0, 0, 0, 3, 13, 192, 1, 1, 0, 0, 0, 64, 160, 173,
      253, 63, 65, 22, 0, 0, 0, 0, 0, 0, 0, 0>>

\* dynamic: "ab", length 3 distance 2; a repeat code 16 runs from the
\* literal/length lengths into the distance lengths
DYN_cross ==
    <<31, 139, 8, 0, 0, 0, 0, 0, 0, 3, 13, 195, 5, 1, 0, 0, 0, 128, 160, 173,
      250, 127, 132, 137, 27, 0, 0, 0, 0, 0, 0, 0, 0>>

\* stored, LEN = 20 with 10 bytes left in the buffer
STORED_short ==
    <<31, 139, 8, 0, 0, 0, 0, 0, 0, 3, 1, 20, 0, 235, 255, 97, 98, 0, 0, 0,
      0, 0, 0, 0, 0>>

\* stored, LEN = 0, and the buffer ends after NLEN
STORED_empty_at_end ==
    <<31, 139, 8, 0, 0, 0, 0, 0, 0, 3, 1, 0, 0, 255, 255>>

\* fixed: 'a', then length 3 distance 2
FIXED_far ==
    <<31, 139, 8, 0, 0, 0, 0, 0, 0, 3, 75, 4, 6, 0, 0, 0, 0, 0, 0, 0, 0, 0>>

\* block type 11
BTYPE_11 ==
    <<31, 139, 8, 0, 0, 0, 0, 0, 0, 3, 7, 0, 0, 0, 0, 0, 0, 0, 0>>

\* a member without its trailer
no_trailer ==
    <<31, 139, 8, 0, 0, 0, 0, 0, 0, 3, 1, 3, 0, 252, 255, 97, 98, 99>>

\* a member followed by one zero byte
trailing_zero ==
    <<31, 139, 8, 0, 0, 0, 0, 0, 0, 3, 1, 3, 0, 252, 255, 97, 98, 99, 0, 0,
      0, 0, 0, 0, 0, 0, 0>>

\* the empty buffer
empty ==
    <<>>

\* ID2 is not 0x8b
bad_magic ==
    <<31, 140, 8, 0, 0, 0, 0, 0, 0, 3, 3, 0, 0, 0, 0, 0, 0, 0, 0, 0>>

\* FEXTRA, FNAME, FCOMMENT and FHCRC present; stored "hi"
header_fields ==
    <<31, 139, 8, 30, 0, 0, 0, 0, 0, 3, 2, 0, 7, 7, 110, 0, 99, 100, 0, 5, 6,
      1, 2, 0, 253, 255, 104, 105, 0, 0, 0, 0, 0, 0, 0, 0>>

\* a reserved FLG bit set
header_reserved ==
    <<31, 139, 8, 32, 0, 0, 0, 0, 0, 3, 3, 0, 0, 0, 0, 0, 0, 0, 0, 0>>

\* FNAME without its terminating zero
header_name_open ==
    <<31, 139, 8, 8, 0, 0, 0, 0, 0, 3, 110>>

\* fixed: 'a', then literal/length symbol 286
FIXED_sym286 ==
    <<31, 139, 8, 0, 0, 0, 0, 0, 0, 3, 75, 28, 3, 0, 0, 0, 0, 0, 0, 0, 0>>

\* fixed: 'a', length 3, distance symbol 30
FIXED_dist30 ==
    <<31, 139, 8, 0, 0, 0, 0, 0, 0, 3, 75, 4, 122, 0, 0, 0, 0, 0, 0, 0, 0, 0>>

\* fixed: 'a', length symbol 284 with extra bits 31
FIXED_284_31 ==
    <<31, 139, 8, 0, 0, 0, 0, 0, 0, 3, 75, 28, 249, 0, 0, 0, 0, 0, 0, 0, 0,
      0, 0>>

\* fixed: 'a', length symbol 284 with extra bits 30 (257), distance 1
FIXED_284_30 ==
    <<31, 139, 8, 0, 0, 0, 0, 0, 0, 3, 75, 28, 241, 0, 0, 0, 0, 0, 0, 0, 0,
      0, 0>>

\* fixed: "ab", length 258 (symbol 285) distance 2
FIXED_285 ==
    <<31, 139, 8, 0, 0, 0, 0, 0, 0, 3, 75, 76, 26, 13, 0, 0, 0, 0, 0, 0, 0,
      0, 0>>

\* fixed block cut after two bytes
FIXED_eof ==
    <<31, 139, 8, 0, 0, 0, 0, 0, 0, 3, 75, 76>>

\* dynamic: the first code length symbol is 16
DYN_16_first ==
    <<31, 139, 8, 0, 0, 0, 0, 0, 0, 3, 5, 0, 130, 0, 0, 0, 0, 0, 0, 0, 0, 0>>

\* dynamic: 138 zeros twice for 258 code lengths
DYN_over_18 ==
    <<31, 139, 8, 0, 0, 0, 0, 0, 0, 3, 5, 192, 129, 0, 0, 0, 0, 0, 144, 255,
      127, 0, 0, 0, 0, 0, 0, 0, 0>>

\* dynamic: a repeat code 16 runs over the 258 code lengths
DYN_over_16 ==
    <<31, 139, 8, 0, 0, 0, 0, 0, 0, 3, 5, 128, 5, 1, 0, 0, 0, 64, 254, 175,
      214, 0, 0, 0, 0, 0, 0, 0, 0>>

\* dynamic: a repeat code 17 runs over the 258 code lengths
DYN_over_17 ==
    <<31, 139, 8, 0, 0, 0, 0, 0, 0, 3, 5, 128, 33, 1, 0, 0, 0, 64, 254, 191,
      238, 0, 0, 0, 0, 0, 0, 0, 0>>

\* dynamic: code 16 right after code 17; "aa"
DYN_17_16 ==
    <<31, 139, 8, 0, 0, 0, 0, 0, 0, 3, 5, 192, 53, 1, 0, 0, 0, 0, 48, 173,
      41, 216, 191, 128, 132, 0, 0, 0, 0, 0, 0, 0, 0>>

\* dynamic: three literal/length codes of length 1
DYN_bad_ll ==
    <<31, 139, 8, 0, 0, 0, 0, 0, 0, 3, 5, 192, 1, 5, 0, 0, 0, 0, 160, 234,
      255, 105, 0, 0, 0, 0, 0, 0, 0, 0>>

\* dynamic: HLIT = 30
DYN_hlit_30 ==
    <<31, 139, 8, 0, 0, 0, 0, 0, 0, 3, 245, 0, 0, 0, 0, 0, 0, 0, 0, 0, 0, 0,
      0>>

\* dynamic: a length symbol with no distance code defined
DYN_no_dist ==
    <<31, 139, 8, 0, 0, 0, 0, 0, 0, 3, 13, 192, 1, 9, 0, 0, 0, 128, 160, 173,
      254, 63, 81, 88, 0, 0, 0, 0, 0, 0, 0, 0>>

\* fixed: "abc", 127 times length 258 distance 3 (32769 bytes: the window
\* wraps and the output buffer fills four times), then length 4 distance
\* 32768, length 258 distance 1, length 5 distance 2, length 3 distance 32767
LONG_fixed ==
    <<31, 139, 8, 0, 0, 0, 0, 0, 0, 3, 75, 76, 74, 30, 21, 163, 98, 84, 140,
      138, 81, 49, 42, 70, 197, 168, 24, 21, 163, 98, 84, 140, 138, 81, 49,
      42, 70, 197, 168, 24, 21, 163, 98, 84, 140, 138, 81, 49, 42, 70, 197,
      168, 24, 21, 163, 98, 84, 140, 138, 81, 49, 42, 70, 197, 168, 24, 21,
      163, 98, 84, 140, 138, 81, 49, 42, 70, 197, 168, 24, 21, 163, 98, 84,
      140, 138, 81, 49, 42, 70, 197, 168, 24, 21, 163, 98, 84, 140, 138, 81,
      49, 42, 70, 197, 168, 24, 21, 163, 98, 84, 140, 138, 81, 49, 42, 70,
      197, 168, 24, 21, 163, 98, 84, 140, 138, 81, 49, 42, 70, 197, 168, 24,
      21, 163, 98, 84, 140, 138, 81, 49, 42, 70, 197, 168, 24, 21, 163, 98,
      84, 140, 138, 81, 49, 42, 70, 197, 168, 24, 21, 163, 98, 84, 140, 138,
      81, 49, 42, 70, 197, 168, 24, 21, 163, 98, 84, 140, 138, 81, 49, 42,
      70, 197, 168, 24, 21, 163, 98, 84, 140, 138, 81, 49, 42, 70, 197, 168,
      24, 21, 163, 98, 84, 140, 138, 81, 49, 42, 70, 197, 168, 24, 21, 163,
      98, 84, 140, 138, 81, 49, 42, 70, 5, 168, 255, 255, 81, 0, 14, 192,
      238, 255, 1, 0, 0, 0, 0, 0, 0, 0, 0>>

\* padding after a member: one zero byte
ZERO_PAD == <<0>>

\* the members an input buffer is assembled from, and the padding that may
\* follow one
Members ==
    <<STORED_abc,
      FIXED_empty,
      FIXED_run,
      FIXED_overlap,
      STORED_then_FIXED,
      FIXED_then_STORED,
      FIXED_first_is_copy,
      STORED_bad_nlen,
      FIXED_rfc_abab,
      DYN_ok,
      DYN_cross,
      ZERO_PAD>>

\* the buffers decoded on their own
Singles ==
    {STORED_short,
     STORED_empty_at_end,
     FIXED_far,
     BTYPE_11,
     no_trailer,
     trailing_zero,
     empty,
     bad_magic,
     header_fields,
     header_reserved,
     header_name_open,
     FIXED_sym286,
     FIXED_dist30,
     FIXED_284_31,
     FIXED_284_30,
     FIXED_285,
     FIXED_eof,
     DYN_16_first,
     DYN_over_18,
     DYN_over_16,
     DYN_over_17,
     DYN_17_16,
     DYN_bad_ll,
     DYN_hlit_30,
     DYN_no_dist,
     LONG_fixed}

\* truncated input: every proper prefix of a member with every optional
\* header field and a stored block, of a member with a fixed block and of a
\* member with a dynamic block
Truncations ==
    UNION { { SubSeq(b, 1, n) : n \in 0..(Len(b) - 1) } :
              b \in {header_fields, FIXED_overlap, DYN_ok} }

-----------------------------------------------------------------------------
(* Bounds *)

\* members in an assembled input buffer
MaxMembers == 2
\* the writer fails on its k-th call, k in 1 .. MaxFailAt, or never
MaxFailAt == 1
\* the failing write puts 0 .. MaxShortWrite bytes in the stream
MaxShortWrite == 2
\* the k-th malloc of a run fails, k in 1 .. MaxMallocFailAt, or none
MaxMallocFailAt == 12
\* symbols in a code length vector
MaxSymbols == 4
\* code lengths 0 .. MaxCodeLen in a code length vector (and 8, 15)
MaxCodeLen == 3
\* bytes in a buffer handed to read_bits
MaxBufLen == 2
\* read_bits is called with 0 .. MaxReadBits bits
MaxReadBits == 13

RECURSIVE Concat(_)
Concat(ps) == IF ps = <<>> THEN <<>> ELSE Head(ps) \o Concat(Tail(ps))

\* the lists of members an input buffer is assembled from
PartLists ==
    UNION { { [i \in 1..n |-> Members[ix[i]]] :
                ix \in [1..n -> 1..Len(Members)] } : n \in 1..MaxMembers }

\* the buffers handed to read_bits
BufferBytes == {0, 60, 165, 255}
BitBuffers == UNION { [1..n -> BufferBytes] : n \in 0..MaxBufLen }

\* the buffers handed to length_from_length_code: the empty buffer, and
\* the 5 bit number e at the cursor, the cursor at bit 0 or at bit 5 of the
\* first byte
ExtraBitsBuffers ==
    {[buf |-> <<>>, byte_pos |-> 0]}
    \cup {[buf |-> <<e>>, byte_pos |-> 0] : e \in 0..31}
    \cup {[buf |-> <<(e * 32) % 256, (e * 32) \div 256>>, byte_pos |-> 5] :
              e \in 0..31}

\* the code length vectors handed to generate_huffman_codes
CodeLens == (0..MaxCodeLen) \cup {8, 15}
LengthVectors ==
    UNION { [1..n -> CodeLens] : n \in 0..MaxSymbols } \cup {lengths_01}

-----------------------------------------------------------------------------
(* The decoder: decompress_members over an input buffer *)

NoCodes == [ok |-> FALSE, codes |-> <<>>]

\* no call of generate_huffman_codes is modelled
CodesIdle == lengths = <<>> /\ limit = 0 /\ codes = NoCodes

M == [pc |-> pc, buf_pos |-> buf_pos, data |-> data, blk |-> blk]

Install(m) ==
    /\ pc' = m.pc
    /\ buf_pos' = m.buf_pos
    /\ data' = m.data
    /\ blk' = m.blk
    /\ UNCHANGED <<lengths, limit, codes, parts>>

\* decompress_members is handed a buffer, a writer that fails on call
\* fail_at after taking short bytes of it, and an allocator whose k-th
\* malloc fails. The run returns at its first fault, so one of the two is
\* set to fail at most.
Init ==
    /\ parts \in PartLists \cup { <<s>> : s \in Singles \cup Truncations }
    /\ \E fail_at \in 0..MaxFailAt, k \in 0..MaxMallocFailAt :
          /\ fail_at = 0 \/ k = 0
          /\ \E short \in IF fail_at = 0 THEN {0} ELSE 0..MaxShortWrite :
                data = [StartData(Concat(parts), fail_at) EXCEPT
                          !.f_short = short, !.malloc_fail_at = k]
    /\ pc = "header"
    /\ buf_pos = 0
    /\ blk = NoBlk
    /\ CodesIdle

Header == pc = "header" /\ Install(DoHeader(M))
Enter == pc = "enter" /\ Install(DoEnter(M))
Block == pc = "block" /\ Install(DoBlock(M))
Block00 == pc = "b00" /\ Install(DoBlock00(M))
Block01 == pc = "b01" /\ Install(DoBlock01(M))
Symbol01 == pc = "sym01" /\ Install(DoSymbol01(M))
Block10 == pc = "b10" /\ Install(DoBlock10(M))
CodeLength == pc = "cl" /\ blk.cnt < blk.total /\ Install(DoCodeLength(M))
Trees10 == pc = "cl" /\ blk.cnt >= blk.total /\ Install(DoTrees10(M))
Symbol10 == pc = "sym10" /\ Install(DoSymbol10(M))
BlockEnd == pc = "blockend" /\ Install(DoBlockEnd(M))
Trailer == pc = "trailer" /\ Install(DoTrailer(M))

Next ==
    \/ Header
    \/ Enter
    \/ Block
    \/ Block00
    \/ Block01
    \/ Symbol01
    \/ Block10
    \/ CodeLength
    \/ Trees10
    \/ Symbol10
    \/ BlockEnd
    \/ Trailer

Spec == Init /\ [][Next]_vars

\* decompress_members is one sequential thread of control: from every state
\* that is not a return it takes its next step, which is weak fairness of
\* each step. The steps that parse a member header, build a Huffman tree
\* or decode the contents of a block are enabled exactly at their position
\* in the code (pc), and their weak fairness is written with that position
\* in place of ENABLED.
Fairness ==
    /\ WF_vars(Enter)
    /\ WF_vars(Block)
    /\ WF_vars(BlockEnd)
    /\ WF_vars(Trailer)
    /\ ([]<>(pc # "header") \/ []<><<Header>>_vars)
    /\ ([]<>(pc # "b00") \/ []<><<Block00>>_vars)
    /\ ([]<>(pc # "b01") \/ []<><<Block01>>_vars)
    /\ ([]<>(pc # "sym01") \/ []<><<Symbol01>>_vars)
    /\ ([]<>(pc # "b10") \/ []<><<Block10>>_vars)
    /\ ([]<>(pc # "cl") \/ []<><<CodeLength \/ Trees10>>_vars)
    /\ ([]<>(pc # "sym10") \/ []<><<Symbol10>>_vars)

SpecFair == Init /\ [][Next]_vars /\ Fairness

-----------------------------------------------------------------------------
(* The code generator: generate_huffman_codes over a code length vector *)

InitCodes ==
    /\ lengths \in LengthVectors
    /\ limit \in {7, 15}
    /\ codes = NoCodes
    /\ pc = "codes"
    /\ buf_pos = 0
    /\ data = StartData(<<>>, 0)
    /\ blk = NoBlk
    /\ parts = <<>>

GenerateCodes ==
    /\ pc = "codes"
    /\ codes' = generate_huffman_codes(lengths, Len(lengths), limit)
    /\ pc' = "codes_done"
    /\ UNCHANGED <<buf_pos, data, blk, lengths, limit, parts>>

NextCodes == GenerateCodes

SpecCodes == InitCodes /\ [][NextCodes]_vars

-----------------------------------------------------------------------------
(* The tree builder: create_huffman_tree over a code length vector *)

InitTree ==
    /\ lengths \in LengthVectors
    /\ limit \in {7, 15}
    /\ codes = NoCodes
    /\ pc = "tree"
    /\ buf_pos = 0
    /\ \E k \in 0..MaxMallocFailAt :
          data = [StartData(<<>>, 0) EXCEPT !.malloc_fail_at = k]
    /\ blk = NoBlk
    /\ parts = <<>>

\* create_huffman_tree(lengths, length, limit): codes is its local array
\* codes[288] as generate_huffman_codes filled it, blk.root the tree returned
CreateTree ==
    /\ pc = "tree"
    /\ codes' = generate_huffman_codes(lengths, Len(lengths), limit)
    /\ blk' = [blk EXCEPT
                 !.root = create_huffman_tree(lengths, Len(lengths), limit,
                                              data.malloc_fail_at)]
    /\ pc' = "tree_done"
    /\ UNCHANGED <<buf_pos, data, lengths, limit, parts>>

NextTree == CreateTree

SpecTree == InitTree /\ [][NextTree]_vars

-----------------------------------------------------------------------------
(* The bit reader: calls of read_bits on a cursor over a buffer *)

InitBits ==
    /\ \E buf \in BitBuffers : data = StartData(buf, 0)
    /\ pc = "bits"
    /\ buf_pos = 0
    /\ blk = NoBlk
    /\ parts = <<>>
    /\ CodesIdle

\* read_bits(&d, bits, &value) called by a block decoder with locals b:
\* [pc, data, blk]. The history b.last keeps the call: n = bits, length =
\* the value returned and at = the cursor (byte, bit) before the call. A
\* caller returns false when read_bits does (pc = "bits_fail").
DoReadBits(d, b, bits) ==
    LET go(r) ==
            [pc |-> IF r.ok THEN "bits" ELSE "bits_fail",
             data |-> r.d,
             blk |-> [b EXCEPT
                        !.last = [NoOp EXCEPT
                                    !.kind = "read", !.n = bits,
                                    !.length = IF r.ok THEN r.value ELSE 0,
                                    !.at = <<d.buf_pos, d.byte_pos>>]]]
    IN  go(read_bits(d, bits))

ReadBits ==
    /\ pc = "bits"
    /\ \E bits \in 0..MaxReadBits :
          /\ pc' = DoReadBits(data, blk, bits).pc
          /\ data' = DoReadBits(data, blk, bits).data
          /\ blk' = DoReadBits(data, blk, bits).blk
    /\ UNCHANGED <<buf_pos, lengths, limit, codes, parts>>

NextBits == ReadBits

SpecBits == InitBits /\ [][NextBits]_vars

-----------------------------------------------------------------------------
(* The length decoder: length_from_length_code on a length symbol *)

InitLength ==
    /\ \E b \in ExtraBitsBuffers :
          data = [StartData(b.buf, 0) EXCEPT !.byte_pos = b.byte_pos]
    /\ pc = "length"
    /\ buf_pos = 0
    /\ blk = NoBlk
    /\ parts = <<>>
    /\ CodesIdle

\* length_from_length_code(&d, code, &length) called by a block decoder
\* with locals b: [pc, data, blk]. The history b.last keeps the call: n =
\* code, length = the length returned and at = the cursor (byte, bit) before
\* the call.
DoLength(d, b, code) ==
    LET go(r) ==
            [pc |-> IF r.ok THEN "length_ok" ELSE "length_fail",
             data |-> r.d,
             blk |-> [b EXCEPT
                        !.last = [NoOp EXCEPT
                                    !.kind = "length", !.n = code,
                                    !.length = r.length,
                                    !.at = <<d.buf_pos, d.byte_pos>>]]]
    IN  go(length_from_length_code(d, code))

\* the block decoders call it for the symbols 257 .. 285 only
LengthFromCode ==
    /\ pc = "length"
    /\ \E code \in 257..285 :
          /\ pc' = DoLength(data, blk, code).pc
          /\ data' = DoLength(data, blk, code).data
          /\ blk' = DoLength(data, blk, code).blk
    /\ UNCHANGED <<buf_pos, lengths, limit, codes, parts>>

NextLength == LengthFromCode

SpecLength == InitLength /\ [][NextLength]_vars

-----------------------------------------------------------------------------
(* Properties of decompress_members (specification Spec) *)

\* the decoder stands inside decompress_blocks, between two block steps
InBlocks ==
    pc \in {"block", "b00", "b01", "sym01", "b10", "cl", "sym10", "blockend"}

\* the writer accepts every write and every malloc gives a node
NoFault == data.f_fail_at = 0 /\ data.malloc_fail_at = 0

\* the buffers a and b decode alone (ra, rb are the machines they end in)
\* only if the present run, over a followed by b, succeeded and wrote the
\* output of a followed by the output of b
JoinedOutput(ra, rb) ==
    (ra.pc = "ok" /\ rb.pc = "ok") =>
        (pc = "ok" /\ data.f = ra.data.f \o rb.data.f)

\* C1: when decompress_members succeeds on a buffer A writing O_A and on a
\* buffer B writing O_B, it succeeds on A followed by B and writes exactly
\* O_A followed by O_B. Stated at the return of a run over parts, for every
\* split of parts into a front A and a back B, with a writer that accepts
\* every write and an allocator that never fails.
ConcatenationDecodesToConcatenation ==
    (pc \in {"ok", "fail"} /\ NoFault) =>
        \A k \in 1..(Len(parts) - 1) :
            JoinedOutput(
                decompress_members(Concat(SubSeq(parts, 1, k))),
                decompress_members(Concat(SubSeq(parts, k + 1, Len(parts)))))

\* a run over two different members, each with output, has returned true
\* with both outputs written in input order
TwoMembersDecoded ==
    /\ pc = "ok"
    /\ parts = <<STORED_then_FIXED, DYN_cross>>
    /\ data.f_fail_at = 0
    /\ data.f = <<120, 121, 120, 121, 120, 122, 97, 98, 97, 98, 97>>

\* byte i (from 0) of the output of the current member
MemberByte(i) == data.emitted[data.member_base + i + 1]

\* C2: an accepted back reference (length in 3..258, distance in 1..32768)
\* made after n bytes of the member emits length bytes, and emitted byte i is
\* the member's output byte n + i - distance, also when distance < length;
\* with distance 1 all of them are the byte before the copy.
CopyIsByteByByte ==
    (blk.last.kind = "copy" /\ pc # "fail") =>
        /\ blk.last.length \in 3..258
        /\ blk.last.distance \in 1..32768
        /\ Emitted(data) = blk.last.n + blk.last.length
        /\ \A i \in 0..(blk.last.length - 1) :
              MemberByte(blk.last.n + i)
                  = MemberByte(blk.last.n + i - blk.last.distance)
        /\ blk.last.distance = 1 =>
              \A i \in 0..(blk.last.length - 1) :
                  MemberByte(blk.last.n + i) = MemberByte(blk.last.n - 1)

\* a self-overlapping copy over bytes that differ: "abc", then length 7 at
\* distance 3
OverlappingCopyDone ==
    /\ blk.last.kind = "copy"
    /\ pc # "fail"
    /\ blk.last.distance = 3
    /\ blk.last.length = 7
    /\ blk.last.n = 3
    /\ SubSeq(data.emitted, data.member_base + 1, data.member_base + 10)
           = <<97, 98, 99, 97, 98, 99, 97, 98, 99, 97>>

\* the canonical Huffman tree of 32 distance symbols of length 5
flat_distance_tree == create_huffman_tree([i \in 1..32 |-> 5], 32, 15, 0)

\* the symbol flat_distance_tree decodes at the cursor at = (byte, bit) of
\* the input of d, the first bit consumed taken as the most significant
\* code bit (find_huffman_code)
TreeSymbolAt(d, at) ==
    LET symbol(e) == flat_distance_tree[e.node].code
    IN  symbol(find_huffman_code(
                   [d EXCEPT !.buf_pos = at[1], !.byte_pos = at[2]],
                   flat_distance_tree))

\* C3: in a fixed block the distance symbol read as 5 bits is the symbol
\* that a canonical Huffman tree with all distance code lengths 5 decodes
\* from the same bits, followed most significant bit first.
FixedDistanceSymbolIsTreeSymbol ==
    (blk.last.fixed /\ blk.last.dsym # -1) =>
        blk.last.dsym = TreeSymbolAt(data, blk.last.at)

\* C4: a back reference with distance d made after n bytes of the current
\* member is accepted if and only if 1 <= d <= 32768 and d <= n, whatever
\* the members before have emitted; when it is refused the decoder fails
\* and has emitted nothing for it. Stated with a writer that accepts every
\* write.
BackReferenceAcceptedIffInWindow ==
    (blk.last.kind = "copy" /\ data.f_fail_at = 0) =>
        /\ blk.last.distance \in 1..32768
        /\ (pc # "fail") <=> (blk.last.distance <= blk.last.n)
        /\ (pc = "fail") => Emitted(data) = blk.last.n

\* a back reference refused in a second member, at a distance the bytes of
\* the first member would have covered
CopyRefusedAcrossMembers ==
    /\ blk.last.kind = "copy"
    /\ data.f_fail_at = 0
    /\ pc = "fail"
    /\ blk.last.n < blk.last.distance
    /\ blk.last.distance <= Len(data.emitted)
    /\ Emitted(data) = blk.last.n

\* C5 as written: a stored block decodes successfully if and only if NLEN
\* is the bitwise complement of LEN.
StoredSucceedsIffNlenMatches ==
    (blk.last.kind = "stored") =>
        ((pc # "fail") <=> (blk.last.length = 65535 - blk.last.nlen))

\* C5, amended: a stored block decodes successfully only if NLEN is the
\* bitwise complement of LEN; and with a writer that accepts every write it
\* decodes successfully if and only if the 4 bytes of LEN and NLEN are in
\* the buffer, NLEN is the complement of LEN, and at least one byte and at
\* least LEN bytes follow them in the buffer.
StoredSucceedsIffNlenMatchesAndDataPresent ==
    (blk.last.kind = "stored") =>
        /\ (pc # "fail") => (blk.last.length = 65535 - blk.last.nlen)
        /\ data.f_fail_at = 0 =>
              ((pc # "fail") <=>
                  /\ blk.last.avail >= 4
                  /\ blk.last.length = 65535 - blk.last.nlen
                  /\ blk.last.avail - 4 >= 1
                  /\ blk.last.avail - 4 >= blk.last.length)

\* a stored block of 3 bytes has been decoded
StoredBlockDecoded ==
    /\ blk.last.kind = "stored"
    /\ pc = "blockend"
    /\ blk.last.length = 3
    /\ blk.last.nlen = 65532
    /\ Emitted(data) = blk.last.n + 3

\* C6: when decompress_blocks returns true the cursor it hands back is the
\* byte index it started at plus ceil(b / 8), b being the bits consumed
\* (the padding a stored block skips included).
CursorAfterBlocksIsCeilOfBits ==
    (pc = "trailer") =>
        /\ buf_pos = data.start_pos + (data.bits + 7) \div 8
        /\ buf_pos = data.buf_pos

\* decompress_blocks has returned from a second member whose last byte was
\* not used up
BlocksReturnedInsideAByte ==
    /\ pc = "trailer"
    /\ data.bits % 8 # 0
    /\ Len(parts) = 2
    /\ data.member_base > 0

\* C7: when the decoder returns success the bytes passed to the writer are
\* the bytes the block decoders emitted, in order, and the output buffer is
\* empty; the buffer is written out whenever it reaches 8192 bytes, so it
\* never holds that many between two steps and the writer has received a
\* whole number of buffers while a member is being decoded.
WriterGetsEveryEmittedByte ==
    /\ (pc \in {"trailer", "ok"}) =>
          (data.f = data.emitted /\ data.out_pos = 0)
    /\ (pc # "fail") =>
          /\ data.f \o SubSeq(data.out_buf, 1, data.out_pos) = data.emitted
          /\ data.out_pos < OUT_BUF_SIZE
    /\ (InBlocks /\ pc # "fail") =>
          (Len(data.f) - data.member_base) % OUT_BUF_SIZE = 0

\* a run whose output filled the buffer four times has returned true
LongOutputWritten ==
    /\ pc = "ok"
    /\ data.f_calls >= 5
    /\ Len(data.f) > 4 * OUT_BUF_SIZE
    /\ data.f = data.emitted

\* one code length symbol applied to the expansion acc = [out, prev]
ExpandOne(acc, code, n) ==
    IF code <= 15 THEN [out |-> Append(acc.out, code), prev |-> code]
    ELSE IF code = 16
    THEN [out |-> acc.out \o [i \in 1..n |-> acc.prev], prev |-> acc.prev]
    ELSE [out |-> acc.out \o [i \in 1..n |-> 0], prev |-> 0]

\* the run-length expansion of the code length symbols syms[k ..], each a
\* pair <<symbol, repeat count>>
RECURSIVE ExpandFrom(_, _, _)
ExpandFrom(syms, k, acc) ==
    IF k > Len(syms) THEN acc
    ELSE ExpandFrom(syms, k + 1, ExpandOne(acc, syms[k][1], syms[k][2]))

Expand(syms) == ExpandFrom(syms, 1, [out |-> <<>>, prev |-> 0])

\* the repeat count the decoder took for a code length symbol
RepeatCountInRange(sym) ==
    CASE sym[1] <= 15 -> sym[2] = 1
      [] sym[1] = 16 -> sym[2] \in 3..6 \/ (sym[2] = 0 /\ blk.cnt = 0)
      [] sym[1] = 17 -> sym[2] \in 3..10
      [] OTHER -> sym[1] = 18 /\ sym[2] \in 11..138

\* the lengths stored so far are the expansion e of the symbols decoded
LengthsAreExpansion(e) ==
    /\ \A k \in 1..Len(blk.cl_syms) : RepeatCountInRange(blk.cl_syms[k])
    /\ (pc = "cl") =>
          /\ blk.total = blk.ll_code_cnt + blk.d_code_cnt
          /\ blk.cnt = Len(e.out)
          /\ blk.cnt <= blk.total
          /\ blk.previous_code_length = e.prev
          /\ \A i \in 0..(blk.cnt - 1) :
                e.out[i + 1] =
                    IF i < blk.ll_code_cnt THEN blk.ll_code_lengths[i + 1]
                    ELSE blk.d_code_lengths[i - blk.ll_code_cnt + 1]
    /\ (Len(e.out) > blk.total) => (pc = "fail")
    /\ (blk.cl_syms # <<>> /\ blk.cl_syms[1][1] = 16) => (pc = "fail")

\* C8: in a dynamic block the code lengths decoded are one sequence, at most
\* ll_code_cnt + d_code_cnt long and exactly that long when the loop ends,
\* equal to the run-length expansion of the symbols decoded (0..15 a length;
\* 16 the previous length 3..6 times; 17 3..10 zeros; 18 11..138 zeros; 17
\* and 18 set previous to 0), its first ll_code_cnt entries in the
\* literal/length array and the rest in the distance array; the decoder
\* fails on a 16 that comes first and on a repeat that runs past
\* ll_code_cnt + d_code_cnt.
CodeLengthsAreRunLengthExpansion ==
    (blk.cl_root # NoTree) => LengthsAreExpansion(Expand(blk.cl_syms))

\* every code length of a block is decoded, and a repeat symbol 16 has run
\* from the literal/length array into the distance array
RepeatCrossedTheBoundary ==
    /\ pc = "cl"
    /\ blk.cl_root # NoTree
    /\ blk.cnt = blk.total
    /\ \E k \in 1..Len(blk.cl_syms) :
          /\ blk.cl_syms[k][1] = 16
          /\ Len(Expand(SubSeq(blk.cl_syms, 1, k - 1)).out) < blk.ll_code_cnt
          /\ Len(Expand(SubSeq(blk.cl_syms, 1, k)).out) > blk.ll_code_cnt

-----------------------------------------------------------------------------
(* Properties of generate_huffman_codes (specification SpecCodes) *)

\* the number a string of '0' and '1' characters denotes, most significant
\* bit first
RECURSIVE StringValue(_)
StringValue(s) ==
    IF s = <<>> THEN 0
    ELSE 2 * StringValue(SubSeq(s, 1, Len(s) - 1))
         + (IF s[Len(s)] = "1" THEN 1 ELSE 0)

\* RFC 1951 section 3.2.2: bl_count[b] of the vector lens
BlCount(lens, b) == Cardinality({j \in 1..Len(lens) : lens[j] = b})

\* RFC 1951 section 3.2.2, step 2: the smallest code of length len, that
\* is the sum of bl_count[b] * 2^(len - b) over 1 <= b < len
RECURSIVE RfcNextCode(_, _)
RfcNextCode(lens, len) ==
    IF len <= 1 THEN 0
    ELSE 2 * (RfcNextCode(lens, len - 1) + BlCount(lens, len - 1))

\* RFC 1951 section 3.2.2, step 3: the code of symbol i (from 1), kept to
\* its len low bits
RfcCode(lens, i) ==
    (RfcNextCode(lens, lens[i])
     + Cardinality({j \in 1..(i - 1) : lens[j] = lens[i]})) % Pow2(lens[i])

\* the codes of the fixed literal/length lengths given in the text: the
\* first and last symbol of each of the four ranges, symbols from 0
FixedCodeTable ==
    << <<0, <<"0", "0", "1", "1", "0", "0", "0", "0">> >>,
       <<143, <<"1", "0", "1", "1", "1", "1", "1", "1">> >>,
       <<144, <<"1", "1", "0", "0", "1", "0", "0", "0", "0">> >>,
       <<255, <<"1", "1", "1", "1", "1", "1", "1", "1", "1">> >>,
       <<256, <<"0", "0", "0", "0", "0", "0", "0">> >>,
       <<279, <<"0", "0", "1", "0", "1", "1", "1">> >>,
       <<280, <<"1", "1", "0", "0", "0", "0", "0", "0">> >>,
       <<287, <<"1", "1", "0", "0", "0", "1", "1", "1">> >> >>

\* C9: generate_huffman_codes gives every symbol of non-zero length the
\* code of the RFC 1951 section 3.2.2 procedure, as a most-significant-bit
\* first string of that length, and the empty string to a symbol of length
\* 0; within each range of the fixed literal/length lengths the codes are
\* consecutive, from 00110000, 110010000, 0000000 and 11000000 up to
\* 10111111, 111111111, 0010111 and 11000111.
CodesAreRfcCodes ==
    (pc = "codes_done" /\ codes.ok) =>
        /\ Len(codes.codes) = Len(lengths)
        /\ \A i \in 1..Len(lengths) :
              /\ codes.codes[i].len = lengths[i]
              /\ Len(codes.codes[i].huffman_code) = lengths[i]
              /\ \A k \in 1..lengths[i] :
                    codes.codes[i].huffman_code[k] \in {"0", "1"}
              /\ lengths[i] > 0 =>
                    StringValue(codes.codes[i].huffman_code)
                        = RfcCode(lengths, i)
        /\ (lengths = lengths_01) =>
              /\ \A k \in 1..Len(FixedCodeTable) :
                    At(codes.codes, FixedCodeTable[k][1]).huffman_code
                        = FixedCodeTable[k][2]
              /\ \A i \in 2..288 :
                    lengths[i] = lengths[i - 1] =>
                        StringValue(codes.codes[i].huffman_code)
                            = StringValue(codes.codes[i - 1].huffman_code) + 1

\* the codes of the fixed literal/length lengths have been generated
FixedCodesGenerated ==
    /\ pc = "codes_done"
    /\ codes.ok
    /\ lengths = lengths_01
    /\ At(codes.codes, 144).huffman_code
           = <<"1", "1", "0", "0", "1", "0", "0", "0", "0">>

\* the Kraft sum of lens (over its positive lengths) is at most 1
KraftSumAtMostOne(lens) ==
    LET RECURSIVE Sum(_, _)
        Sum(lo, hi) ==
            IF lo > hi THEN 0
            ELSE IF lo = hi
                 THEN (IF lens[lo] > 0 THEN Pow2(15 - lens[lo]) ELSE 0)
                 ELSE Sum(lo, (lo + hi) \div 2)
                      + Sum((lo + hi) \div 2 + 1, hi)
    IN  Sum(1, Len(lens)) <= Pow2(15)

\* (a1, a2) < (b1, b2), the first component deciding
PairLess(a1, a2, b1, b2) == a1 < b1 \/ (a1 = b1 /\ a2 < b2)

\* C10: for a code length vector of at most 288 lengths, all at most 15,
\* with Kraft sum at most 1, the codes are ordered by (length, code value)
\* as the symbols are by (length, symbol index).
CodeOrderMatchesSymbolOrder ==
    (pc = "codes_done" /\ codes.ok /\ KraftSumAtMostOne(lengths)) =>
        \A i, j \in 1..Len(lengths) :
            (/\ lengths[i] > 0
             /\ lengths[j] > 0
             /\ PairLess(lengths[i], i, lengths[j], j)) =>
                PairLess(lengths[i], StringValue(codes.codes[i].huffman_code),
                         lengths[j], StringValue(codes.codes[j].huffman_code))

\* codes have been generated for a vector with Kraft sum 1 holding two
\* symbols of one length and symbols of other lengths
OrderedCodesGenerated ==
    /\ pc = "codes_done"
    /\ codes.ok
    /\ lengths = <<2, 1, 3, 3>>
    /\ codes.codes[3].huffman_code = <<"1", "1", "0">>
    /\ codes.codes[4].huffman_code = <<"1", "1", "1">>

-----------------------------------------------------------------------------
(* Properties of create_huffman_tree (specification SpecTree) *)

\* bit k (from 0) of the code string s when it is sent first bit first; 0
\* after its end
PatternBit(s, k) == IF k < Len(s) /\ s[k + 1] = "1" THEN 1 ELSE 0

\* the bytes holding the code string s, first bit in bit 0 of the first byte
PatternBytes(s) ==
    [b \in 1..((Len(s) + 7) \div 8) |->
        PatternBit(s, 8 * (b - 1)) + 2 * PatternBit(s, 8 * (b - 1) + 1)
        + 4 * PatternBit(s, 8 * (b - 1) + 2)
        + 8 * PatternBit(s, 8 * (b - 1) + 3)
        + 16 * PatternBit(s, 8 * (b - 1) + 4)
        + 32 * PatternBit(s, 8 * (b - 1) + 5)
        + 64 * PatternBit(s, 8 * (b - 1) + 6)
        + 128 * PatternBit(s, 8 * (b - 1) + 7)]

\* find_huffman_code from the root of tree over the bit pattern s
DecodePattern(tree, s) ==
    find_huffman_code(StartData(PatternBytes(s), 0), tree)

\* the decode r of the pattern of symbol i (from 0) ended at the leaf of i
\* after len bits
FoundSymbol(tree, r, i, len) ==
    /\ r.node # NULL
    /\ tree[r.node].code = i
    /\ r.d.bits = len

\* the nodes of tree that carry a symbol
Leaves(tree) == {k \in 1..Len(tree) : tree[k].code # -1}

\* C11: when create_huffman_tree succeeds on a code length vector, decoding
\* the code of any symbol of non-zero length from the root with
\* find_huffman_code ends at the leaf carrying that symbol after exactly
\* its code length in bits; there are as many leaves as symbols with a code
\* (no two symbols share a leaf), and a leaf has no child (no leaf lies on
\* the path of another symbol).
TreeDecodesEverySymbol ==
    (pc = "tree_done" /\ blk.root # NoTree) =>
        /\ \A i \in 1..Len(lengths) :
              lengths[i] > 0 =>
                  FoundSymbol(blk.root,
                              DecodePattern(blk.root,
                                            codes.codes[i].huffman_code),
                              i - 1, lengths[i])
        /\ Cardinality(Leaves(blk.root))
               = Cardinality({i \in 1..Len(lengths) : lengths[i] > 0})
        /\ \A k \in Leaves(blk.root) :
              blk.root[k].left = NULL /\ blk.root[k].right = NULL

\* the tree of the fixed literal/length lengths has been built, and the 9
\* bit code of symbol 144 leads to its leaf
FixedTreeBuilt ==
    /\ pc = "tree_done"
    /\ lengths = lengths_01
    /\ blk.root # NoTree
    /\ codes.codes[145].huffman_code
           = <<"1", "1", "0", "0", "1", "0", "0", "0", "0">>
    /\ FoundSymbol(blk.root,
                   DecodePattern(blk.root, codes.codes[145].huffman_code),
                   144, 9)

\* the code string a begins the code string b (or is b)
IsPrefix(a, b) == Len(a) <= Len(b) /\ SubSeq(b, 1, Len(a)) = a

\* two symbols with a code have the same code, or the code of one begins
\* the code of the other
CodeConflict(cs) ==
    \E i, j \in 1..Len(cs) :
        /\ i # j
        /\ cs[i].len > 0
        /\ cs[j].len > 0
        /\ IsPrefix(cs[i].huffman_code, cs[j].huffman_code)

\* a code length above the caller's limit or above 15
LengthOverLimit(lens, lim) ==
    \E i \in 1..Len(lens) : lens[i] > lim \/ lens[i] > 15

\* the tree create_huffman_tree gives when the malloc_fail_at-th malloc of
\* the call fails, full being the tree it gives when none does: no tree
\* when full needs that malloc, and full otherwise
TreeUnderAllocation(full, malloc_fail_at) ==
    IF malloc_fail_at \in 1..Len(full) THEN NoTree ELSE full

\* C12: create_huffman_tree (at most 288 lengths) fails, when every malloc
\* succeeds, exactly when a code length exceeds the caller's limit or 15,
\* or two of the generated codes are equal or one begins another, whichever
\* of the two symbols comes first; every vector with Kraft sum above 1 is
\* refused and every vector within the limit with Kraft sum at most 1
\* (incomplete and all-zero vectors too) gives a tree when allocation
\* succeeds. A failing malloc makes the call fail and changes nothing else.
TreeFailsExactlyOnBadTable ==
    (pc = "tree_done") =>
        /\ (data.malloc_fail_at = 0) =>
               ((blk.root = NoTree) <=>
                    (\/ LengthOverLimit(lengths, limit)
                     \/ (codes.ok /\ CodeConflict(codes.codes))))
        /\ (\/ LengthOverLimit(lengths, limit)
            \/ (codes.ok /\ CodeConflict(codes.codes))) => blk.root = NoTree
        /\ ~KraftSumAtMostOne(lengths) => blk.root = NoTree
        /\ (/\ KraftSumAtMostOne(lengths)
            /\ ~LengthOverLimit(lengths, limit)
            /\ data.malloc_fail_at = 0) => blk.root # NoTree
        /\ blk.root = TreeUnderAllocation(
                          create_huffman_tree(lengths, Len(lengths), limit, 0),
                          data.malloc_fail_at)

\* an over-subscribed vector within the limit was refused: the code "0" of
\* the second symbol begins the code "00" of the first, inserted before it
LongerCodeInsertedFirstRefused ==
    /\ pc = "tree_done"
    /\ lengths = <<2, 1, 1>>
    /\ limit = 15
    /\ codes.ok
    /\ codes.codes[1].huffman_code = <<"0", "0">>
    /\ codes.codes[2].huffman_code = <<"0">>
    /\ blk.root = NoTree

-----------------------------------------------------------------------------
(* Properties of read_bits (specification SpecBits) *)

\* bit k (from 0) of the buffer, the bits of a byte taken from the least
\* significant
StreamBit(buf, k) == BitOf(buf[k \div 8 + 1], k % 8)

\* the number whose bit i is bit start + i of the buffer, for i < n
RECURSIVE ValueOfBits(_, _, _)
ValueOfBits(buf, start, n) ==
    IF n = 0 THEN 0
    ELSE ValueOfBits(buf, start, n - 1)
         + StreamBit(buf, start + n - 1) * Pow2(n - 1)

\* a call of read_bits for n bits that found the cursor at bit start of the
\* buffer and left it at bit now
ReadIsRight(start, now, n) ==
    /\ data.byte_pos \in 0..7
    /\ now >= start
    /\ (pc # "bits_fail") <=> (n <= 8 * data.buf_len - start)
    /\ (pc # "bits_fail") =>
           /\ now = start + n
           /\ blk.last.length = ValueOfBits(data.buf, start, n)

\* C13: read_bits(n) with at least n bits left returns the value whose bit
\* i is the i-th bit consumed, the bits of a byte taken least significant
\* first, and moves the cursor by exactly n bits with the bit index in 0..7;
\* it fails when fewer than n bits are left; the cursor never moves back.
ReadBitsIsLsbFirst ==
    (blk.last.kind = "read") =>
        ReadIsRight(8 * blk.last.at[1] + blk.last.at[2],
                    8 * data.buf_pos + data.byte_pos, blk.last.n)

\* 7 bits have been read across a byte boundary: bits 5..7 of 0xa5 and bits
\* 0..3 of 0x3c
ReadAcrossByteBoundary ==
    /\ pc = "bits"
    /\ blk.last.kind = "read"
    /\ data.buf = <<165, 60>>
    /\ blk.last.at = <<0, 5>>
    /\ blk.last.n = 7
    /\ blk.last.length = 101
    /\ data.buf_pos = 1
    /\ data.byte_pos = 4

-----------------------------------------------------------------------------
(* More properties of decompress_members (specification Spec) *)

\* after n bytes of the member, the first of them at emitted[base + 1], the
\* window stands at w and holds the last min(n, 32768) of them: all of them
\* in order before the first wrap; afterwards the last w of them in the
\* cells 0 .. w - 1 and the 32768 - w before those in the cells w .. 32767
WindowHolds(d, n, w, base) ==
    /\ w = n % MAX_DISTANCE
    /\ d.back_refs_filled <=> (n >= MAX_DISTANCE)
    /\ IF n < MAX_DISTANCE
       THEN d.back_refs = SubSeq(d.emitted, base + 1, base + n)
       ELSE /\ Len(d.back_refs) = MAX_DISTANCE
            /\ SubSeq(d.back_refs, 1, w)
                   = SubSeq(d.emitted, base + n - w + 1, base + n)
            /\ SubSeq(d.back_refs, w + 1, MAX_DISTANCE)
                   = SubSeq(d.emitted, base + n - MAX_DISTANCE + 1,
                            base + n - w)

\* C14: in every state of decoding a member that has emitted n bytes, the
\* window write position is n mod 32768, back_refs_filled is true iff
\* n >= 32768 (so it stays true once set, n never decreasing in a member),
\* and the last min(n, 32768) bytes emitted are in the window cells before
\* the write position, cyclically.
WindowTracksOutput ==
    WindowHolds(data, Emitted(data), data.back_refs_pos, data.member_base)

\* a member has emitted 33039 bytes: the window has wrapped and stands at
\* 271
WindowWrapped ==
    /\ pc = "ok"
    /\ parts = <<LONG_fixed>>
    /\ Emitted(data) = 33039
    /\ data.back_refs_filled
    /\ data.back_refs_pos = 271

-----------------------------------------------------------------------------
(* Properties of length_from_length_code (specification SpecLength) *)

\* RFC 1951, 3.2.5: the number of extra bits and the base length of the
\* length symbol s in 257..285, by rule instead of by table
RfcExtraBits(s) == IF s < 265 \/ s = 285 THEN 0 ELSE (s - 261) \div 4
RfcBaseLength(s) ==
    IF s < 265 THEN s - 254
    ELSE IF s = 285 THEN 258
    ELSE (4 + ((s - 265) % 4)) * Pow2(RfcExtraBits(s)) + 3

\* the call for symbol s found its extra bits, of value e, in the buffer
LengthIsRight(s, e) ==
    /\ (pc = "length_ok") <=> ~(s = 284 /\ e = 31)
    /\ (pc = "length_ok") =>
           /\ blk.last.length = RfcBaseLength(s) + e
           /\ blk.last.length \in 3..258
           /\ (blk.last.length = 258 => s = 285)

\* the call for symbol s, which has k extra bits, found the cursor at bit
\* start of the buffer
LengthCallIsRight(s, k, start) ==
    IF 8 * data.buf_len - start < k THEN pc = "length_fail"
    ELSE LengthIsRight(s, ValueOfBits(data.buf, start, k))

\* C15: for every length symbol s in 257..285 and every value e of its extra
\* bits, length_from_length_code returns base(s) + e, a length in 3..258,
\* except that it fails for s = 284 with e = 31; length 258 comes from
\* symbol 285 only.
LengthIsBasePlusExtra ==
    (blk.last.kind = "length") =>
        LengthCallIsRight(blk.last.n, RfcExtraBits(blk.last.n),
                          8 * blk.last.at[1] + blk.last.at[2])

\* symbol 284 with extra bits 30 has given length 257
Length257From284 ==
    /\ pc = "length_ok"
    /\ blk.last.kind = "length"
    /\ blk.last.n = 284
    /\ data.buf = <<30>>
    /\ blk.last.length = 257

-----------------------------------------------------------------------------
(* More properties of decompress_members (specification Spec), continued *)

\* C16: whenever a fixed or dynamic block decoder has returned, on any
\* return path, every Huffman tree it created has been freed: no tree is
\* live between two blocks, nor when the decoder has returned (true or
\* false).
NoLiveTreeOutsideABlock ==
    (pc \notin {"sym01", "cl", "sym10"}) => blk.live = 0

\* the buffers a and b decoded alone end in ra and rb: when a decodes and b
\* does not, the present run, over a followed by b, has failed
RestDecides(ra, rb) == (ra.pc = "ok" /\ rb.pc = "fail") => pc = "fail"

\* C17: decompress_members returns true only with the input buffer consumed
\* exactly: after a member trailer it stops only when the cursor is the
\* buffer length and otherwise reads the bytes left as another member
\* header, so bytes after the last trailer that are not a whole valid member
\* (zero padding for one) make the call fail, and so does an empty buffer.
ReturnsTrueOnlyAtBufferEnd ==
    /\ (pc = "ok") => (buf_pos = data.buf_len /\ data.buf_len > 0)
    /\ (pc = "header" /\ buf_pos # 0) => buf_pos < data.buf_len
    /\ (pc \in {"ok", "fail"} /\ data.buf_len = 0) => pc = "fail"
    /\ (pc \in {"ok", "fail"} /\ data.f_fail_at = 0) =>
           \A k \in 1..(Len(parts) - 1) :
               RestDecides(
                   decompress_members(Concat(SubSeq(parts, 1, k))),
                   decompress_members(
                       Concat(SubSeq(parts, k + 1, Len(parts)))))

\* a member was decoded and its trailer read, one zero byte was left, and
\* the call failed reading it as a member header
ZeroPaddingRefused ==
    /\ pc = "fail"
    /\ parts = <<STORED_abc, ZERO_PAD>>
    /\ data.f_fail_at = 0
    /\ data.f = <<97, 98, 99>>
    /\ buf_pos = data.buf_len - 1

-----------------------------------------------------------------------------
(* Termination of decompress_members (specification SpecFair) *)

\* the bit of the input buffer the cursor of decompress_blocks stands at
CursorBit(d) == 8 * d.buf_pos + d.byte_pos

\* one step of the decoder: no cursor moves back, and an iteration of the
\* member loop (from the header), of the block loop (from the block
\* header), of the code length loop and of a symbol loop fails or moves its
\* cursor forward; the code length loop also raises its count. No cursor
\* passes the end of the buffer, which bounds the number of steps.
StepAdvances ==
    /\ buf_pos' >= buf_pos
    /\ buf_pos' <= data'.buf_len
    /\ CursorBit(data') >= CursorBit(data)
    /\ data'.buf_pos <= data'.buf_len
    /\ (pc = "header") => (pc' = "fail" \/ buf_pos' > buf_pos)
    /\ (pc \in {"block", "sym01", "sym10"}) =>
           (pc' = "fail" \/ CursorBit(data') > CursorBit(data))
    /\ (pc = "cl" /\ blk.cnt < blk.total) =>
           (pc' = "fail" \/ (/\ CursorBit(data') > CursorBit(data)
                             /\ blk'.cnt > blk.cnt))

\* C18: decompress_members terminates on every finite input buffer: every
\* iteration of the member loop, the block loop, the code length loop and
\* the symbol loop fails or strictly advances the input cursor (and the
\* code length count), and the decoder eventually returns true or false.
DecoderTerminates ==
    /\ [][StepAdvances]_vars
    /\ <>(pc \in {"ok", "fail"})

\* decompress_members has returned true after two rounds of its member
\* loop, a dynamic block with its code length loop and symbol loop, and two
\* rounds of the block loop in the second member
TwoMembersRunToTheEnd ==
    /\ pc = "ok"
    /\ parts = <<DYN_cross, STORED_then_FIXED>>
    /\ data.f_fail_at = 0
    /\ buf_pos = data.buf_len
    /\ data.f = <<97, 98, 97, 98, 97, 120, 121, 120, 121, 120, 122>>


-----------------------------------------------------------------------------
(* Reads of the input buffer (specification Spec) *)

\* C19: every read of the input buffer made by check_member_header, the
\* block header of decompress_blocks, read_bits, find_huffman_code,
\* decompress_block_type_00 and check_member_trailer is at an index strictly
\* less than the buffer length; a truncated input is answered with return
\* false.
ReadsStayInsideTheBuffer ==
    /\ data.max_read < data.buf_len
    /\ (parts[1] \in Truncations /\ Len(parts) = 1) => pc # "ok"

\* decompress_members has returned false on a member cut off after 5 of
\* the 8 bytes of its trailer: the last byte read is the last byte of the
\* fixed block, and no byte of the trailer was read
TruncatedInTrailerRefused ==
    /\ pc = "fail"
    /\ parts = <<SubSeq(FIXED_overlap, 1, Len(FIXED_overlap) - 3)>>
    /\ buf_pos = data.buf_len - 5
    /\ data.max_read = buf_pos - 1


-----------------------------------------------------------------------------
(* The cells a back reference reads (specification Spec) *)

\* the cell of back_refs at index i was written in the current member, and
\* lies below the write position while the window is not filled
WrittenCell(d, i) ==
    /\ BackRef(d, i) # UNINIT
    /\ ~d.back_refs_filled => i < d.back_refs_pos

\* every index read by copy_bytes_from_distance(d, n, distance), for every
\* length n in 3..258, is a written cell, and the bytes copied for the
\* length decoded are the cells at the indices read
CopyReadsWrittenCells(d, length, distance) ==
    LET written(n, reads) ==
            /\ Len(reads) = n
            /\ \A i \in 1..n : WrittenCell(d, reads[i])
        copied(reads) ==
            bytes_to_copy(d, length, distance) =
                [i \in 1..length |-> BackRef(d, reads[i])]
    IN  /\ \A n \in 3..258 : written(n, copy_reads(d, n, distance))
        /\ copied(copy_reads(d, length, distance))

\* C20: a back reference that copy_bytes_from_distance accepts reads only
\* cells of the window written in the current member: while the window is
\* not filled every index read is below the write position, whatever the
\* length 3..258.
AcceptedCopyReadsWrittenCells ==
    [][(/\ pc \in {"sym01", "sym10"}
        /\ blk'.last.kind = "copy"
        /\ ~InvalidBackReference(data, blk'.last.distance))
       => CopyReadsWrittenCells(data, blk'.last.length,
                                blk'.last.distance)]_vars

\* a fixed block has copied length 7 from distance 3 with 3 bytes in the
\* window: the read index went back to the copy start twice
OverlappingCopyAccepted ==
    /\ pc = "sym01"
    /\ blk.last.kind = "copy"
    /\ blk.last.length = 7
    /\ blk.last.distance = 3
    /\ blk.last.n = 3
    /\ ~data.back_refs_filled
    /\ data.back_refs_pos = 10
    /\ data.emitted = <<97, 98, 99, 97, 98, 99, 97, 98, 99, 97>>

=============================================================================
